---- MODULE Spec2Model ----
(***************************************************************************)
(* Kanbrawl: the board store (server/store.ts), the SSE broadcaster        *)
(* (server/sse.ts), the server wiring (server/index.ts) and the editor     *)
(* extension's replica (extension/src/tree-provider.ts).                   *)
(*                                                                         *)
(* Free-text JavaScript strings (titles, column names, ...) are sequences  *)
(* of one-character strings, so that trim() is computed.  Enumerated       *)
(* strings (priority, sortBy, sortOrder, event types) are TLA+ strings.    *)
(***************************************************************************)
EXTENDS Integers, Sequences, FiniteSets, TLC

VARIABLES data, file, listeners, lastCall, clock, nextId,
          clients, stream, applied, replica, log, joinedAt,
          order, faulty, closedAt, web, ext, toolColumnNames

vars == <<data, file, listeners, lastCall, clock, nextId,
          clients, stream, applied, replica, log, joinedAt,
          order, faulty, closedAt, web, ext, toolColumnNames>>

storeVars == <<data, file, listeners, lastCall, clock, nextId>>
sseVars == <<clients, stream, applied, replica, log, joinedAt>>
\* the iteration order of the broadcaster's Set, and the sinks whose write
\* raises an error
sinkVars == <<order, faulty>>
\* the observers: the web application and the editor extension's client
obsVars == <<web, ext>>
\* toolColumnNames: the column names registerTools captured

----------------------------------------------------------------------------
(* Bounds *)

\* tasks held by the store at one time
MaxTasks == 2
\* tasks ever created (ids handed out)
MaxIds == 2
\* length of the column list passed to updateColumns
MaxNewCols == 2
\* events emitted by the store in one run of the server specification
MaxEvents == 3
\* the latest time the clock reaches
MaxClock == 2
\* tasks held by the store at one time, where the clock advances
MaxTimedTasks == 1
\* reconnects an observer schedules without its channel opening in between
MaxFailures == 7
\* GET /board requests and responses an observer has in flight at one time
MaxFetches == 1
\* reconnect timers of the extension's client whose handle was overwritten
\* and that are pending at one time
MaxStray == 1
\* tasks of the file the tools are registered on
MaxListed == 12
\* tasks in the file, where the command line writes it too
MaxFileTasks == 2

----------------------------------------------------------------------------
(* JavaScript values *)

\* undefined, where a free-text string is expected
Undefined == <<"undefined">>
\* undefined, where an enumerated string is expected
UndefinedEnum == "undefined"
\* undefined, where a number is expected
UndefinedNumber == -1

\* the white space String.prototype.trim removes, as far as the inputs use it
WhiteSpace == {" ", "\t"}

RECURSIVE trimStart(_)
trimStart(s) ==
  IF s # <<>> /\ Head(s) \in WhiteSpace THEN trimStart(Tail(s)) ELSE s

RECURSIVE trimEnd(_)
trimEnd(s) ==
  IF s # <<>> /\ s[Len(s)] \in WhiteSpace
  THEN trimEnd(SubSeq(s, 1, Len(s) - 1))
  ELSE s

trim(s) == trimEnd(trimStart(s))

Range(seq) == {seq[i] : i \in 1..Len(seq)}

\* Array.prototype.includes
includes(seq, x) == \E i \in 1..Len(seq) : seq[i] = x

\* Array.prototype.filter
filter(seq, keep(_)) == SelectSeq(seq, keep)

Todo == <<"T", "o", "d", "o">>
InProgress == <<"I", "n", " ", "p", "r", "o", "g", "r", "e", "s", "s">>
Blocked == <<"B", "l", "o", "c", "k", "e", "d">>
Done == <<"D", "o", "n", "e">>

DEFAULT_COLUMNS ==
  << [name |-> Todo, sortBy |-> "priority", sortOrder |-> "asc"],
     [name |-> InProgress, sortBy |-> "created", sortOrder |-> "asc"],
     [name |-> Blocked, sortBy |-> "created", sortOrder |-> "asc"],
     [name |-> Done, sortBy |-> "updated", sortOrder |-> "desc"] >>

columnNames(columns) == [i \in 1..Len(columns) |-> columns[i].name]

\* the upper-case letters the inputs use, with their lower-case letters
LowerCase ==
  [A |-> "a", B |-> "b", D |-> "d", E |-> "e", I |-> "i", N |-> "n",
   O |-> "o", T |-> "t"]

\* String.prototype.toLowerCase
toLowerCase(s) ==
  [i \in 1..Len(s) |->
     IF s[i] \in DOMAIN LowerCase THEN LowerCase[s[i]] ELSE s[i]]

\* col.sortBy ?? 'created' and col.sortOrder ?? 'asc': the key is absent, or
\* its value is undefined
orElse(col, key, default) ==
  IF key \in DOMAIN col /\ col[key] # UndefinedEnum THEN col[key] ELSE default

\* migrateColumn, giving every bare name the policy created/asc
migrateColumn_plain(col) ==
  IF "string" \in DOMAIN col
  THEN [name |-> col.string, sortBy |-> "created", sortOrder |-> "asc"]
  ELSE [name |-> col.name,
        sortBy |-> orElse(col, "sortBy", "created"),
        sortOrder |-> orElse(col, "sortOrder", "asc")]

\* migrateColumn.  In a file a column is an object, a record with the key
\* name and possibly sortBy and sortOrder, or a bare name, written here as
\* a record with the one key string.
migrateColumn(col) ==
  IF "string" \in DOMAIN col
  THEN LET lowered == toLowerCase(col.string)
       IN IF lowered = <<"t", "o", "d", "o">>
          THEN [name |-> col.string, sortBy |-> "priority",
                sortOrder |-> "asc"]
          ELSE IF lowered = <<"d", "o", "n", "e">>
          THEN [name |-> col.string, sortBy |-> "updated",
                sortOrder |-> "desc"]
          ELSE [name |-> col.string, sortBy |-> "created",
                sortOrder |-> "asc"]
  ELSE [name |-> col.name,
        sortBy |-> orElse(col, "sortBy", "created"),
        sortOrder |-> orElse(col, "sortOrder", "asc")]

----------------------------------------------------------------------------
(* The persisted file: JSON.stringify / JSON.parse of KanbrawlData.  The   *)
(* text is modelled by its JSON value; a key whose value is undefined is   *)
(* not written.                                                            *)

\* stringify, leaving the theme out
stringify_noTheme(d) == [columns |-> d.columns, tasks |-> d.tasks]

stringify(d) ==
  IF d.theme = UndefinedEnum
  THEN [columns |-> d.columns, tasks |-> d.tasks]
  ELSE [columns |-> d.columns, tasks |-> d.tasks, theme |-> d.theme]

\* BoardStore.load, when the file exists
load(f) ==
  [columns |-> IF "columns" \in DOMAIN f
               THEN [i \in 1..Len(f.columns) |-> migrateColumn(f.columns[i])]
               ELSE DEFAULT_COLUMNS,
   tasks |-> IF "tasks" \in DOMAIN f THEN f.tasks ELSE <<>>,
   theme |-> IF "theme" \in DOMAIN f /\ f.theme # "" THEN f.theme
             ELSE UndefinedEnum]

----------------------------------------------------------------------------
(* The world a store method runs in: the store's fields, the file, the     *)
(* broadcaster's sinks, and the trace of the call (events passed to emit,  *)
(* deliveries to listeners, outcome).                                      *)

World ==
  [data |-> data, file |-> file, listeners |-> listeners,
   clients |-> clients, stream |-> stream,
   order |-> order, faulty |-> faulty,
   emitted |-> <<>>, deliveries |-> <<>>,
   ok |-> TRUE, error |-> "none", result |-> Undefined,
   diskFails |-> FALSE]

\* the same world, with a file that cannot be opened for writing
FailingWorld == [World EXCEPT !.diskFails = TRUE]

throw(w, err) == [w EXCEPT !.ok = FALSE, !.error = err]
return(w, value) == IF w.ok THEN [w EXCEPT !.result = value] ELSE w

\* save, with the write left to a later turn of the event loop
save_deferred(w) == w

\* BoardStore.save: writeFileSync writes the file, or throws and leaves it
\* as it was
save(w) ==
  IF w.diskFails THEN throw(w, "writeFileSync")
  ELSE [w EXCEPT !.file = stringify(w.data)]

\* client.write: the message is appended to what the sink was written, or
\* the call raises an error
write(w, c, event) ==
  IF c \in w.faulty THEN throw(w, "write")
  ELSE [w EXCEPT !.stream[c] = Append(@, event)]

\* the loop of broadcast: the Set is iterated in insertion order, and an
\* error raised by a write leaves the loop
RECURSIVE writeAll(_, _, _)
writeAll(w, sinks, event) ==
  IF sinks = <<>> \/ ~w.ok THEN w
  ELSE writeAll(write(w, Head(sinks), event), Tail(sinks), event)

\* broadcast, leaving the loop after the first sink
broadcast_firstSink(w, event) ==
  writeAll(w, IF w.order = <<>> THEN <<>> ELSE <<Head(w.order)>>, event)

\* SSEManager.broadcast: one write per registered sink
broadcast(w, event) == writeAll(w, w.order, event)

\* the listeners: "sse" is the one startServer registers, the others record
\* what they are given, and whether the file held the board at that moment
listener(w, l, event) ==
  LET w1 == [w EXCEPT !.deliveries =
               Append(@, [listener |-> l, event |-> event,
                          persisted |-> w.file = stringify(w.data)])]
  IN IF l = "sse" THEN broadcast(w1, event) ELSE w1

RECURSIVE emitTo(_, _, _)
emitTo(w, ls, event) ==
  IF ls = <<>> \/ ~w.ok THEN w
  ELSE emitTo(listener(w, Head(ls), event), Tail(ls), event)

\* emit, leaving the loop after the first listener
emit_firstListener(w, event) ==
  emitTo([w EXCEPT !.emitted = Append(@, event)],
         SubSeq(w.listeners, 1, 1), event)

\* BoardStore.emit; it is not reached when save has thrown
emit(w, event) ==
  IF ~w.ok THEN w
  ELSE emitTo([w EXCEPT !.emitted = Append(@, event)], w.listeners, event)

----------------------------------------------------------------------------
(* Store methods *)

\* uuidv4 returning the same identifier at every call
uuidv4_fixed(n) == 1

\* the identifier the n-th call of uuidv4 returns: no two calls return the
\* same one
uuidv4(n) == n

findIndex(tasks, id) ==
  IF \E i \in 1..Len(tasks) : tasks[i].id = id
  THEN CHOOSE i \in 1..Len(tasks) :
         tasks[i].id = id /\ \A j \in 1..(i - 1) : tasks[j].id # id
  ELSE 0

\* createTask, taking the last column when none is named
createTask_lastColumn(w, title, description, column, priority, assignee, id, now) ==
  LET names == columnNames(w.data.columns)
      targetColumn == IF column # Undefined THEN column
                      ELSE IF names = <<>> THEN Undefined
                      ELSE names[Len(names)]
  IN IF ~includes(names, targetColumn) THEN throw(w, "column")
     ELSE
       LET task == [id |-> id,
                    title |-> title,
                    description |-> IF description = Undefined THEN <<>>
                                    ELSE description,
                    column |-> targetColumn,
                    priority |-> IF priority = UndefinedEnum THEN "P1"
                                 ELSE priority,
                    assignee |-> IF assignee = Undefined THEN <<>>
                                 ELSE assignee,
                    createdAt |-> now,
                    updatedAt |-> now]
           w1 == [w EXCEPT !.data.tasks = Append(@, task)]
           w2 == save(w1)
           w3 == emit(w2, [type |-> "task_created", task |-> task])
       IN return(w3, task)

createTask(w, title, description, column, priority, assignee, id, now) ==
  LET names == columnNames(w.data.columns)
      targetColumn == IF column # Undefined THEN column
                      ELSE IF names = <<>> THEN Undefined ELSE names[1]
  IN IF ~includes(names, targetColumn) THEN throw(w, "column")
     ELSE
       LET task == [id |-> id,
                    title |-> title,
                    description |-> IF description = Undefined THEN <<>>
                                    ELSE description,
                    column |-> targetColumn,
                    priority |-> IF priority = UndefinedEnum THEN "P1"
                                 ELSE priority,
                    assignee |-> IF assignee = Undefined THEN <<>>
                                 ELSE assignee,
                    createdAt |-> now,
                    updatedAt |-> now]
           w1 == [w EXCEPT !.data.tasks = Append(@, task)]
           w2 == save(w1)
           w3 == emit(w2, [type |-> "task_created", task |-> task])
       IN return(w3, task)

\* moveTask, leaving updatedAt as it was
moveTask_stale(w, id, targetColumn, now) ==
  LET names == columnNames(w.data.columns)
      i == findIndex(w.data.tasks, id)
  IN IF ~includes(names, targetColumn) THEN throw(w, "column")
     ELSE IF i = 0 THEN throw(w, "notfound")
     ELSE
       LET fromColumn == w.data.tasks[i].column
           w1 == [w EXCEPT !.data.tasks[i].column = targetColumn]
           task == w1.data.tasks[i]
           w2 == save(w1)
           w3 == emit(w2, [type |-> "task_moved", task |-> task,
                           fromColumn |-> fromColumn])
       IN return(w3, task)

\* moveTask, reading fromColumn after the column was assigned
moveTask_fromAfter(w, id, targetColumn, now) ==
  LET names == columnNames(w.data.columns)
      i == findIndex(w.data.tasks, id)
  IN IF ~includes(names, targetColumn) THEN throw(w, "column")
     ELSE IF i = 0 THEN throw(w, "notfound")
     ELSE
       LET w1 == [w EXCEPT !.data.tasks[i].column = targetColumn,
                           !.data.tasks[i].updatedAt = now]
           task == w1.data.tasks[i]
           fromColumn == task.column
           w2 == save(w1)
           w3 == emit(w2, [type |-> "task_moved", task |-> task,
                           fromColumn |-> fromColumn])
       IN return(w3, task)

moveTask(w, id, targetColumn, now) ==
  LET names == columnNames(w.data.columns)
      i == findIndex(w.data.tasks, id)
  IN IF ~includes(names, targetColumn) THEN throw(w, "column")
     ELSE IF i = 0 THEN throw(w, "notfound")
     ELSE
       LET fromColumn == w.data.tasks[i].column
           w1 == [w EXCEPT !.data.tasks[i].column = targetColumn,
                           !.data.tasks[i].updatedAt = now]
           task == w1.data.tasks[i]
           w2 == save(w1)
           w3 == emit(w2, [type |-> "task_moved", task |-> task,
                           fromColumn |-> fromColumn])
       IN return(w3, task)

\* updateTask, writing '' to the free-text fields that are not supplied
updateTask_clearUnsupplied(w, id, fields, now) ==
  LET i == findIndex(w.data.tasks, id)
  IN IF i = 0 THEN throw(w, "notfound")
     ELSE
       LET old == w.data.tasks[i]
           task == [old EXCEPT
                      !.title = IF fields.title # Undefined
                                THEN fields.title ELSE @,
                      !.description = IF fields.description # Undefined
                                      THEN fields.description ELSE <<>>,
                      !.priority = IF fields.priority # UndefinedEnum
                                   THEN fields.priority ELSE @,
                      !.assignee = IF fields.assignee # Undefined
                                   THEN fields.assignee ELSE <<>>,
                      !.updatedAt = now]
           w1 == [w EXCEPT !.data.tasks[i] = task]
           w2 == save(w1)
           w3 == emit(w2, [type |-> "task_updated", task |-> task])
       IN return(w3, task)

\* updateTask, keeping a description that an earlier request has set
updateTask_firstWins(w, id, fields, now) ==
  LET i == findIndex(w.data.tasks, id)
  IN IF i = 0 THEN throw(w, "notfound")
     ELSE
       LET old == w.data.tasks[i]
           task == [old EXCEPT
                      !.title = IF fields.title # Undefined
                                THEN fields.title ELSE @,
                      !.description = IF fields.description # Undefined
                                         /\ old.description = <<>>
                                      THEN fields.description ELSE @,
                      !.priority = IF fields.priority # UndefinedEnum
                                   THEN fields.priority ELSE @,
                      !.assignee = IF fields.assignee # Undefined
                                   THEN fields.assignee ELSE @,
                      !.updatedAt = now]
           w1 == [w EXCEPT !.data.tasks[i] = task]
           w2 == save(w1)
           w3 == emit(w2, [type |-> "task_updated", task |-> task])
       IN return(w3, task)

updateTask(w, id, fields, now) ==
  LET i == findIndex(w.data.tasks, id)
  IN IF i = 0 THEN throw(w, "notfound")
     ELSE
       LET old == w.data.tasks[i]
           task == [old EXCEPT
                      !.title = IF fields.title # Undefined
                                THEN fields.title ELSE @,
                      !.description = IF fields.description # Undefined
                                      THEN fields.description ELSE @,
                      !.priority = IF fields.priority # UndefinedEnum
                                   THEN fields.priority ELSE @,
                      !.assignee = IF fields.assignee # Undefined
                                   THEN fields.assignee ELSE @,
                      !.updatedAt = now]
           w1 == [w EXCEPT !.data.tasks[i] = task]
           w2 == save(w1)
           w3 == emit(w2, [type |-> "task_updated", task |-> task])
       IN return(w3, task)

\* deleteTask without the not-found check: splice(-1, 1) drops the last task
deleteTask_noCheck(w, id) ==
  LET index == findIndex(w.data.tasks, id)
      tasks == w.data.tasks
      at == IF index = 0 THEN Len(tasks) ELSE index
      w1 == [w EXCEPT !.data.tasks =
               SubSeq(tasks, 1, at - 1) \o SubSeq(tasks, at + 1, Len(tasks))]
      w2 == save(w1)
  IN emit(w2, [type |-> "task_deleted", taskId |-> id])

deleteTask(w, id) ==
  LET index == findIndex(w.data.tasks, id)
  IN IF index = 0 THEN throw(w, "notfound")
     ELSE
       LET tasks == w.data.tasks
           w1 == [w EXCEPT !.data.tasks =
                    SubSeq(tasks, 1, index - 1)
                      \o SubSeq(tasks, index + 1, Len(tasks))]
           w2 == save(w1)
       IN emit(w2, [type |-> "task_deleted", taskId |-> id])

\* no deduplication
dedupe_none(cols, seen) == cols

\* the deduplication of updateColumns: keep the first occurrence of a name
RECURSIVE dedupe(_, _)
dedupe(cols, seen) ==
  IF cols = <<>> THEN <<>>
  ELSE IF Head(cols).name \in seen THEN dedupe(Tail(cols), seen)
       ELSE <<Head(cols)>> \o dedupe(Tail(cols), seen \cup {Head(cols).name})

\* processColumns, testing the name for emptiness before it is trimmed
processColumns_filterUntrimmed(columns) ==
  LET nonEmpty(c) == Len(c.name) > 0
      kept == filter(columns, nonEmpty)
  IN [i \in 1..Len(kept) |->
        [name |-> trim(kept[i].name),
         sortBy |-> IF kept[i].sortBy = UndefinedEnum
                    THEN "created" ELSE kept[i].sortBy,
         sortOrder |-> IF kept[i].sortOrder = UndefinedEnum
                       THEN "asc" ELSE kept[i].sortOrder]]

\* updateColumns: trim the names, default the sort policy, drop empty names
processColumns(columns) ==
  LET mapped == [i \in 1..Len(columns) |->
                   [name |-> trim(columns[i].name),
                    sortBy |-> IF columns[i].sortBy = UndefinedEnum
                               THEN "created" ELSE columns[i].sortBy,
                    sortOrder |-> IF columns[i].sortOrder = UndefinedEnum
                                  THEN "asc" ELSE columns[i].sortOrder]]
      nonEmpty(c) == Len(c.name) > 0
  IN filter(mapped, nonEmpty)

\* reassign, leaving the tasks where they were
reassign_none(tasks, removedNames, fallback, now) == tasks

\* reassign, moving the tasks to the last removed column's position
reassign_all(tasks, removedNames, fallback, now) ==
  IF Len(removedNames) > 0
  THEN [i \in 1..Len(tasks) |->
          [tasks[i] EXCEPT !.column = fallback, !.updatedAt = now]]
  ELSE tasks

\* updateColumns: move tasks from removed columns to the first remaining one
reassign(tasks, removedNames, fallback, now) ==
  IF Len(removedNames) > 0
  THEN [i \in 1..Len(tasks) |->
          IF includes(removedNames, tasks[i].column)
          THEN [tasks[i] EXCEPT !.column = fallback, !.updatedAt = now]
          ELSE tasks[i]]
  ELSE tasks

\* updateColumns, adding the new columns to the list instead of replacing it
updateColumns_append(w, columns, now) ==
  IF Len(columns) = 0 THEN throw(w, "nocolumn")
  ELSE
    LET processed == processColumns(columns)
    IN IF Len(processed) = 0 THEN throw(w, "noname")
       ELSE
         LET unique == dedupe(processed, {})
             newNames == columnNames(unique)
             notNew(n) == ~includes(newNames, n)
             removedNames == filter(columnNames(w.data.columns), notNew)
             w1 == [w EXCEPT
                      !.data.tasks =
                        reassign(@, removedNames, unique[1].name, now),
                      !.data.columns = @ \o unique]
             w2 == save(w1)
             w3 == emit(w2, [type |-> "columns_updated", columns |-> unique])
         IN return(w3, unique)

updateColumns(w, columns, now) ==
  IF Len(columns) = 0 THEN throw(w, "nocolumn")
  ELSE
    LET processed == processColumns(columns)
    IN IF Len(processed) = 0 THEN throw(w, "noname")
       ELSE
         LET unique == dedupe(processed, {})
             newNames == columnNames(unique)
             notNew(n) == ~includes(newNames, n)
             removedNames == filter(columnNames(w.data.columns), notNew)
             w1 == [w EXCEPT
                      !.data.tasks =
                        reassign(@, removedNames, unique[1].name, now),
                      !.data.columns = unique]
             w2 == save(w1)
             w3 == emit(w2, [type |-> "columns_updated", columns |-> unique])
         IN return(w3, unique)

\* read accessors
getBoard(w) == return(w, w.data)
getColumns(w) == return(w, w.data.columns)
getColumnNames(w) == return(w, columnNames(w.data.columns))
getTasks(w, column) ==
  LET inColumn(t) == t.column = column
  IN return(w, IF column # Undefined /\ column # <<>>
               THEN filter(w.data.tasks, inColumn)
               ELSE w.data.tasks)
getTask(w, id) ==
  LET i == findIndex(w.data.tasks, id)
  IN return(w, IF i = 0 THEN Undefined ELSE w.data.tasks[i])

----------------------------------------------------------------------------
(* References.  The values above are the contents of objects; what a call  *)
(* hands to its caller or to a listener is a reference, either to objects  *)
(* the store holds ("data", "columns", "tasks", "task") or to a copy of    *)
(* them that nothing else refers to ("clone").                             *)

\* structuredClone, returning its argument
structuredClone_same(ref) == ref

\* structuredClone: a deep copy
structuredClone(ref) == "clone"

\* the reference a store method returns
returned(op) ==
  CASE op = "getBoard" -> structuredClone("data")
    [] op = "getColumns" -> structuredClone("columns")
    [] op = "getTasks" -> structuredClone("tasks")
    [] op = "getTask" -> structuredClone("task")
    [] op \in {"createTask", "moveTask", "updateTask"} ->
         structuredClone("task")
    [] op = "updateColumns" -> structuredClone("columns")

\* the reference in the event a store method passes to emit
payload(op) ==
  CASE op \in {"createTask", "moveTask", "updateTask"} ->
         structuredClone("task")
    [] op = "updateColumns" -> structuredClone("columns")
    [] OTHER -> "clone"

\* the store's board after the holder of ref, handed out by call, wrote to
\* the objects it refers to
written(d, ref, call) ==
  LET mark(t) == [t EXCEPT !.title = <<"z">>]
  IN CASE ref = "clone" -> d
       [] ref = "data" -> [d EXCEPT !.tasks = <<>>, !.theme = "z"]
       [] ref = "columns" -> [d EXCEPT !.columns[1].name = <<"z">>]
       [] ref = "tasks" ->
            [d EXCEPT !.tasks =
               [i \in 1..Len(@) |->
                  IF @[i].column = call.args[1] THEN mark(@[i]) ELSE @[i]]]
       [] ref = "task" ->
            [d EXCEPT !.tasks =
               [i \in 1..Len(@) |->
                  IF @[i].id = call.result.id THEN mark(@[i]) ELSE @[i]]]

----------------------------------------------------------------------------
(* Facades: the REST router (server/api.ts), the tool handlers             *)
(* (server/tools.ts) and the command line (cli/commands/task.ts).  A       *)
(* request is a record of the five task fields, Undefined where a field    *)
(* is absent.                                                              *)

\* a string that JavaScript takes as false: undefined or ''
falsy(s) == s = Undefined \/ s = <<>>

\* s?.trim()
optTrim(s) == IF s = Undefined THEN Undefined ELSE trim(s)

\* registerTools: the column names of the store are read once, when the
\* tools are registered
registerTools(w) == getColumnNames(w).result

\* String.prototype.localeCompare, on two priorities
priorityCompare(a, b) ==
  LET rank == [P0 |-> 0, P1 |-> 1, P2 |-> 2]
  IN IF rank[a] < rank[b] THEN -1 ELSE IF rank[a] > rank[b] THEN 1 ELSE 0

\* the comparator of list_tasks, looking at the priority alone
compareTasks_priorityOnly(a, b) == priorityCompare(a.priority, b.priority)

\* the comparator of list_tasks: the priority, then the creation time
\* (two ISO timestamps compare as their times do)
compareTasks(a, b) ==
  IF priorityCompare(a.priority, b.priority) # 0
  THEN priorityCompare(a.priority, b.priority)
  ELSE IF a.createdAt < b.createdAt THEN -1
  ELSE IF a.createdAt > b.createdAt THEN 1 ELSE 0

\* tasks.sort(compareTasks): Array.prototype.sort is stable, an element is
\* placed after the elements that do not compare greater than it
RECURSIVE sortTasks(_)
sortTasks(tasks) ==
  IF tasks = <<>> THEN <<>>
  ELSE LET last == tasks[Len(tasks)]
           sorted == sortTasks(SubSeq(tasks, 1, Len(tasks) - 1))
           k == Cardinality({i \in 1..Len(sorted) :
                               compareTasks(sorted[i], last) <= 0})
       IN SubSeq(sorted, 1, k) \o <<last>> \o SubSeq(sorted, k + 1, Len(sorted))

\* tasks.slice(0, limit), for a limit that is not negative
slice(tasks, limit) ==
  SubSeq(tasks, 1, IF limit < Len(tasks) THEN limit ELSE Len(tasks))

\* the result count of list_tasks when max is omitted
DefaultMax == 10

\* the input schema of the list_tasks tool
listTasksSchema(args) ==
  /\ args.priority \in {UndefinedEnum, "P0", "P1", "P2"}
  /\ args.max # UndefinedNumber => (args.max >= 1 /\ args.max <= 1000)

\* the list_tasks tool; names are the column names registerTools captured
toolListTasks(w, names, args) ==
  IF ~listTasksSchema(args) THEN throw(w, "invalid")
  ELSE
    LET targetColumn == IF args.column # Undefined THEN args.column
                        ELSE IF names = <<>> THEN Undefined ELSE names[1]
    IN IF ~includes(getColumnNames(w).result, targetColumn)
       THEN throw(w, "column")
       ELSE
         LET hasPriority(t) == t.priority = args.priority
             lowerAssignee == toLowerCase(args.assignee)
             hasAssignee(t) == toLowerCase(t.assignee) = lowerAssignee
             tasks0 == getTasks(w, targetColumn).result
             tasks1 == IF args.priority # UndefinedEnum
                       THEN filter(tasks0, hasPriority) ELSE tasks0
             tasks2 == IF ~falsy(args.assignee)
                       THEN filter(tasks1, hasAssignee) ELSE tasks1
             limit == IF args.max # UndefinedNumber THEN args.max
                      ELSE DefaultMax
         IN return(w, slice(sortTasks(tasks2), limit))

\* POST /tasks
restPostTasks(w, body, id, now) ==
  IF falsy(body.title) \/ Len(trim(body.title)) = 0
  THEN throw(w, "400 Title is required")
  ELSE createTask(w, trim(body.title), optTrim(body.description),
                  body.column, body.priority, optTrim(body.assignee),
                  id, now)

\* PATCH /tasks/:id; now1 and now2 are the times of its two store calls
restPatchTask(w, id, body, now1, now2) ==
  LET w1 == IF body.column # Undefined
            THEN moveTask(w, id, body.column, now1)
            ELSE w
  IN IF ~w1.ok THEN w1
     ELSE IF \/ body.title # Undefined
             \/ body.description # Undefined
             \/ body.priority # UndefinedEnum
             \/ body.assignee # Undefined
     THEN updateTask(w1, id,
                     [title |-> body.title, description |-> body.description,
                      priority |-> body.priority, assignee |-> body.assignee],
                     now2)
     ELSE LET w2 == getTask(w1, id)
          IN IF findIndex(w1.data.tasks, id) = 0
             THEN throw(w1, "notfound") ELSE w2

\* String.prototype.includes
includesText(s, sub) ==
  \E i \in 1..(Len(s) - Len(sub) + 1) : SubSeq(s, i, i + Len(sub) - 1) = sub

\* names.join(', ')
RECURSIVE join(_)
join(names) ==
  IF names = <<>> THEN <<>>
  ELSE IF Len(names) = 1 THEN names[1]
  ELSE names[1] \o <<",", " ">> \o join(Tail(names))

\* the message of the error createTask and moveTask throw for a column
columnMessage(names, targetColumn) ==
  <<"C", "o", "l", "u", "m", "n", " ", "\"">>
    \o targetColumn
    \o
      <<"\"", " ", "d", "o", "e", "s", " ", "n", "o", "t", " ", "e", "x",
        "i", "s", "t", ".", " ", "A", "v", "a", "i", "l", "a", "b", "l", "e",
        " ", "c", "o", "l", "u", "m", "n", "s", ":", " ">>
    \o join(names)

\* the message of the error moveTask, updateTask and deleteTask throw for
\* an id
taskMessage(id) ==
  <<"T", "a", "s", "k", " ", "w", "i", "t", "h", " ", "i", "d", " ", "\"">>
    \o <<ToString(id)>>
    \o
      <<"\"", " ", "n", "o", "t", " ", "f", "o", "u", "n", "d", ".">>

\* the text the handlers of PATCH and DELETE look for in a message
NotFoundText ==
  <<"n", "o", "t", " ", "f", "o", "u", "n", "d">>

\* the message of the error a store call ended with
errorMessage(w, id, targetColumn) ==
  IF w.error = "column"
  THEN columnMessage(columnNames(w.data.columns), targetColumn)
  ELSE taskMessage(id)

\* DELETE /tasks/:id
restDeleteTask(w, id) == deleteTask(w, id)

\* the status POST /tasks answers with
restPostStatus(w) == IF w.ok THEN 201 ELSE 400

\* the status PATCH /tasks/:id answers with: 404 for an error whose message
\* holds 'not found', 400 for any other
restPatchStatus(w, id, body) ==
  IF w.ok THEN 200
  ELSE IF includesText(errorMessage(w, id, body.column), NotFoundText)
  THEN 404 ELSE 400

\* the status DELETE /tasks/:id answers with
restDeleteStatus(w, id) ==
  IF w.ok THEN 204
  ELSE IF includesText(errorMessage(w, id, Undefined), NotFoundText)
  THEN 404 ELSE 400

\* the input schema of the create_task tool
createTaskSchema(args) ==
  /\ args.title # Undefined
  /\ Len(args.title) >= 1 /\ Len(args.title) <= 200
  /\ args.description # Undefined => Len(args.description) <= 2000
  /\ args.priority \in {UndefinedEnum, "P0", "P1", "P2"}
  /\ args.assignee # Undefined => Len(args.assignee) <= 100

\* the create_task tool
toolCreateTask(w, args, id, now) ==
  IF ~createTaskSchema(args) THEN throw(w, "invalid")
  ELSE createTask(w, args.title, args.description, args.column,
                  args.priority, args.assignee, id, now)

\* the input schema of the update_task tool
updateTaskSchema(args) ==
  /\ args.title # Undefined =>
       Len(args.title) >= 1 /\ Len(args.title) <= 200
  /\ args.description # Undefined => Len(args.description) <= 2000
  /\ args.priority \in {UndefinedEnum, "P0", "P1", "P2"}
  /\ args.assignee # Undefined => Len(args.assignee) <= 100

\* the update_task tool
toolUpdateTask(w, id, args, now) ==
  IF ~updateTaskSchema(args) THEN throw(w, "invalid")
  ELSE updateTask(w, id,
                  [title |-> args.title, description |-> args.description,
                   priority |-> args.priority, assignee |-> args.assignee],
                  now)

\* the move_task tool
toolMoveTask(w, id, column, now) == moveTask(w, id, column, now)

\* new BoardStore() in the process of the command line: the board is read
\* from the file, and nothing has subscribed
cliStore(w) == [w EXCEPT !.data = load(w.file), !.listeners = <<>>]

\* `P${options.priority}`
cliPriority(p) ==
  CASE p = UndefinedEnum -> UndefinedEnum
    [] p = "0" -> "P0"
    [] p = "1" -> "P1"
    [] p = "2" -> "P2"

\* taskAction, updating the last task whose title matches
taskAction_lastMatch(w, title, options, id, now1, now2) ==
  LET store == cliStore(w)
      priority == cliPriority(options.priority)
      tasks == store.data.tasks
      matches(t) == toLowerCase(t.title) = toLowerCase(title)
      found == filter(tasks, matches)
  IN IF options.update
     THEN IF found = <<>> THEN throw(store, "notitle")
          ELSE
            LET existing == found[Len(found)]
                updates == [title |-> Undefined,
                            description |-> options.description,
                            priority |-> priority,
                            assignee |-> options.assignee]
                w1 == updateTask(store, existing.id, updates, now1)
                updated == w1.result
                w2 == IF w1.ok /\ ~falsy(options.column)
                      THEN moveTask(w1, existing.id, options.column, now2)
                      ELSE w1
            IN return(w2, updated)
     ELSE createTask(store, title, options.description, options.column,
                     priority, options.assignee, id, now1)

\* taskAction; now1 and now2 are the times of its two store calls
taskAction(w, title, options, id, now1, now2) ==
  LET store == cliStore(w)
      priority == cliPriority(options.priority)
      tasks == store.data.tasks
      matches(t) == toLowerCase(t.title) = toLowerCase(title)
      found == filter(tasks, matches)
  IN IF options.update
     THEN IF found = <<>> THEN throw(store, "notitle")
          ELSE
            LET existing == found[1]
                updates == [title |-> Undefined,
                            description |-> options.description,
                            priority |-> priority,
                            assignee |-> options.assignee]
                w1 == updateTask(store, existing.id, updates, now1)
                updated == w1.result
                w2 == IF w1.ok /\ ~falsy(options.column)
                      THEN moveTask(w1, existing.id, options.column, now2)
                      ELSE w1
            IN return(w2, updated)
     ELSE createTask(store, title, options.description, options.column,
                     priority, options.assignee, id, now1)

----------------------------------------------------------------------------
(* The observer of the editor extension *)

\* BoardTreeProvider.handleEvent
handleEvent(board, event) ==
  CASE event.type = "board_sync" -> event.board
    [] event.type = "task_created" ->
         [board EXCEPT !.tasks = Append(@, event.task)]
    [] event.type \in {"task_updated", "task_moved"} ->
         [board EXCEPT !.tasks =
            [i \in 1..Len(@) |->
               IF @[i].id = event.task.id THEN event.task ELSE @[i]]]
    [] event.type = "task_deleted" ->
         LET other(t) == t.id # event.taskId
         IN [board EXCEPT !.tasks = filter(@, other)]
    [] event.type = "columns_updated" ->
         [board EXCEPT !.columns = event.columns]
    [] OTHER -> board

\* SSEManager.addClient: the sink joins the Set, at the end of its order
addClient(w, c) ==
  [w EXCEPT !.clients = @ \cup {c}, !.order = Append(@, c),
            !.stream[c] = <<>>]

\* the close handler, leaving the sink in the Set
onClose_keep(w, c) == w

\* SSEManager.addClient: the handler of the sink's close event
onClose(w, c) ==
  LET other(x) == x # c
  IN [w EXCEPT !.clients = @ \ {c}, !.order = filter(@, other)]

\* the GET /events handler without the snapshot
eventsHandler_noSnapshot(w, c) == addClient(w, c)

\* startServer: the GET /events handler (SSEManager.addClient, then the
\* snapshot written to the new sink)
eventsHandler(w, c) ==
  LET w1 == addClient(w, c)
      board == stringify(w1.data)
  IN [w1 EXCEPT !.stream[c] =
        Append(@, [type |-> "board_sync", board |-> board])]

----------------------------------------------------------------------------
(* Reconnection of the observers: the web application (client/app.ts) and  *)
(* the extension's client (extension/src/api.ts).  An observer is a record *)
(* of its fields; requests and responses are its GET /board calls in       *)
(* flight; failures counts the reconnects scheduled since its channel last *)
(* opened, and lastDelay is the delay the last one was given.              *)
(* reconnectTimer says that the timer whose handle the field holds is      *)
(* pending.                                                                *)

BASE_RECONNECT_DELAY == 1000
MAX_RECONNECT_DELAY == 30000

Min(a, b) == IF a <= b THEN a ELSE b

\* the handlers connectSSE registers on the EventSource
onMessage(board, event) ==
  CASE event.type = "board_sync" -> event.board
    [] event.type = "task_created" ->
         [board EXCEPT !.tasks = Append(@, event.task)]
    [] event.type \in {"task_updated", "task_moved"} ->
         [board EXCEPT !.tasks =
            [i \in 1..Len(@) |->
               IF @[i].id = event.task.id THEN event.task ELSE @[i]]]
    [] event.type = "task_deleted" ->
         LET other(t) == t.id # event.taskId
         IN [board EXCEPT !.tasks = filter(@, other)]
    [] event.type = "columns_updated" ->
         [board EXCEPT !.columns = event.columns]
    [] OTHER -> board

\* KanbrawlApp.closeSSE
closeSSE(o) == [o EXCEPT !.reconnectTimer = FALSE, !.eventSource = "null"]

\* scheduleReconnect without the cap
scheduleReconnect_uncapped(o) ==
  IF o.reconnectTimer THEN o
  ELSE [o EXCEPT !.reconnectTimer = TRUE,
                 !.lastDelay = o.reconnectDelay,
                 !.reconnectDelay = o.reconnectDelay * 2,
                 !.failures = @ + 1]

\* KanbrawlApp.scheduleReconnect
scheduleReconnect(o) ==
  IF o.reconnectTimer THEN o
  ELSE [o EXCEPT !.reconnectTimer = TRUE,
                 !.lastDelay = o.reconnectDelay,
                 !.reconnectDelay =
                   Min(o.reconnectDelay * 2, MAX_RECONNECT_DELAY),
                 !.failures = @ + 1]

\* KanbrawlApp.loadBoard, up to its await: the request leaves
loadBoard(o) == [o EXCEPT !.requests = @ + 1]

\* connectSSE that creates no EventSource
connectSSE_noSource(o) == closeSSE(o)

\* KanbrawlApp.connectSSE: the EventSource is created
connectSSE(o) == [closeSSE(o) EXCEPT !.eventSource = "connecting"]

\* KanbrawlApiClient.closeSSE
apiCloseSSE(o) ==
  [o EXCEPT !.reconnectTimer = FALSE, !.sseRequest = "undefined"]

\* KanbrawlApiClient.scheduleReconnect: setTimeout, and the handle assigned
\* to reconnectTimer.  A timer that was pending is not cleared: it stays
\* pending with no field holding its handle (strayTimers counts these).
apiScheduleReconnect(o) ==
  IF o.disposed THEN o
  ELSE [o EXCEPT !.reconnectTimer = TRUE,
                 !.strayTimers = IF o.reconnectTimer THEN @ + 1 ELSE @,
                 !.lastDelay = o.reconnectDelay,
                 !.reconnectDelay =
                   Min(o.reconnectDelay * 2, MAX_RECONNECT_DELAY),
                 !.failures = @ + 1]

\* KanbrawlApiClient.startSSE: the request is sent
startSSE(o) ==
  IF o.disposed THEN o
  ELSE [apiCloseSSE(o) EXCEPT !.sseRequest = "connecting"]

\* KanbrawlApiClient.connectSSE
apiConnectSSE(o) == startSSE([o EXCEPT !.disposed = FALSE])

\* KanbrawlApiClient.dispose
dispose(o) == apiCloseSSE([o EXCEPT !.disposed = TRUE])

\* GET /board: the response carries the board as JSON
served(o, w) ==
  [o EXCEPT !.requests = @ - 1,
            !.responses = Append(@, stringify(getBoard(w).result))]

\* a sequence without its i-th element
without(seq, i) == SubSeq(seq, 1, i - 1) \o SubSeq(seq, i + 1, Len(seq))

----------------------------------------------------------------------------
(* Inputs *)

Clients == {"c1", "c2"}

\* the sinks of the two observers whose reconnection is modelled
Sinks == Clients \cup {"web", "ext"}

lower == <<"t", "o", "d", "o">>

\* column names offered to updateColumns
NameInputs == {<<" ">>, Todo, <<" ">> \o Todo \o <<"\t">>, lower}

\* the sort policy of the i-th column offered to updateColumns
PolicyInputs ==
  << [sortBy |-> UndefinedEnum, sortOrder |-> UndefinedEnum],
     [sortBy |-> "updated", sortOrder |-> "desc"] >>

PolicyAt(i) == PolicyInputs[((i - 1) % Len(PolicyInputs)) + 1]

ColumnsInputs ==
  UNION {{[i \in 1..n |-> [name |-> names[i], sortBy |-> PolicyAt(i).sortBy,
                           sortOrder |-> PolicyAt(i).sortOrder]] :
            names \in [1..n -> NameInputs]} :
         n \in 0..MaxNewCols}

\* column names offered to createTask and moveTask
ColumnRefInputs == {Blocked, lower}

TitleInputs == {<<"a">>}
PriorityInputs == {UndefinedEnum}

FieldsInputs ==
  {[title |-> <<"b">>, description |-> Undefined, priority |-> UndefinedEnum,
    assignee |-> Undefined]}

IdInputs == 1..MaxIds

\* the requests made through the facades
NoFields ==
  [title |-> Undefined, description |-> Undefined, column |-> Undefined,
   priority |-> UndefinedEnum, assignee |-> Undefined]

CreateRequests ==
  {[NoFields EXCEPT !.title = t] : t \in {<<"a">>, <<" ", "a">>, <<>>}}

UpdateRequests ==
  {[NoFields EXCEPT !.description = <<"d">>],
   [NoFields EXCEPT !.description = <<"d">>, !.column = Done],
   [NoFields EXCEPT !.title = <<>>]}

Deltas == {0, 1}

\* the fields offered to updateTask: every field is supplied by some
\* request and left out by another, with two values to tell requests apart
FieldsRequests ==
  LET none == [title |-> Undefined, description |-> Undefined,
               priority |-> UndefinedEnum, assignee |-> Undefined]
  IN {none,
      [none EXCEPT !.title = <<"b">>],
      [none EXCEPT !.title = <<"c">>, !.description = <<"d">>],
      [none EXCEPT !.description = <<"e">>, !.priority = "P0"],
      [none EXCEPT !.assignee = <<"x">>],
      [none EXCEPT !.title = <<"b">>, !.priority = "P2",
                   !.assignee = <<"y">>],
      [title |-> <<"c">>, description |-> <<"d">>, priority |-> "P0",
       assignee |-> <<"x">>]}

\* a task as an earlier run of the program wrote it
LegacyTask(column) ==
  [id |-> 0, title |-> <<"l">>, description |-> <<>>, column |-> column,
   priority |-> "P2", assignee |-> <<>>, createdAt |-> 0, updatedAt |-> 0]

\* files a store is constructed from: columns as bare names, columns as
\* objects without sortBy or sortOrder, no columns, no tasks, a theme
LegacyFiles ==
  << [columns |-> <<[string |-> Todo], [string |-> <<"D", "O", "N", "E">>],
                    [string |-> Blocked]>>,
      tasks |-> <<LegacyTask(<<"D", "O", "N", "E">>)>>],
     [columns |-> <<[name |-> Todo],
                    [name |-> Done, sortBy |-> "priority"],
                    [name |-> Blocked, sortOrder |-> "desc"]>>,
      tasks |-> <<LegacyTask(Blocked)>>,
      theme |-> "dark"],
     [tasks |-> <<>>, theme |-> ""],
     [columns |-> <<[string |-> lower],
                    [name |-> InProgress, sortBy |-> "updated",
                     sortOrder |-> "desc"]>>,
      theme |-> "dark"] >>

\* the i-th task of a file the tools are registered on: priorities in the
\* order low, critical, normal, critical; creation times that do not follow
\* the insertion order; the fourth task in another column
ToolTask(i) ==
  [id |-> 1 - i,
   title |-> <<"l">>,
   description |-> <<>>,
   column |-> IF i = 4 THEN Blocked ELSE Todo,
   priority |-> <<"P0", "P2", "P0", "P1">>[(i % 4) + 1],
   assignee |-> << <<>>, <<"A">>, <<"a">> >>[(i % 3) + 1],
   createdAt |-> (i \div 2) % 3,
   updatedAt |-> (i \div 2) % 3]

ToolFiles ==
  {[columns |-> DEFAULT_COLUMNS, tasks |-> [i \in 1..n |-> ToolTask(i)]] :
     n \in {0, 5, MaxListed}}

\* the arguments of list_tasks
ListTasksInputs ==
  [column : {Undefined, Todo, Blocked, <<"X">>},
   priority : {UndefinedEnum, "P0", "P2"},
   assignee : {Undefined, <<>>, <<"A">>},
   max : {UndefinedNumber, 1, 2, MaxListed}]

ToolColumnsInputs ==
  {<<[name |-> Blocked, sortBy |-> "created", sortOrder |-> "asc"],
     [name |-> Todo, sortBy |-> "priority", sortOrder |-> "asc"]>>,
   <<[name |-> Done, sortBy |-> "updated", sortOrder |-> "desc"]>>}

\* the bodies of POST /tasks and PATCH /tasks/:id: columns that exist and
\* columns that do not, alone and together with another field
PostBodies ==
  {[NoFields EXCEPT !.title = <<"a">>, !.column = c] :
     c \in {Undefined, <<"X">>}}

PatchBodies ==
  {NoFields,
   [NoFields EXCEPT !.column = <<"X">>],
   [NoFields EXCEPT !.column = NotFoundText],
   [NoFields EXCEPT !.description = <<"d">>, !.column = Done],
   [NoFields EXCEPT !.description = <<"d">>, !.column = <<"X">>]}

\* the titles given to the command line: two that differ by the case of a
\* letter, and a third one
CliTitles == {<<"A">>, <<"a">>, <<"b">>}

\* what the command line is asked for, beside the title
CliRequests ==
  {NoFields,
   [NoFields EXCEPT !.priority = "P0"],
   [NoFields EXCEPT !.description = <<"d">>, !.column = Done],
   [NoFields EXCEPT !.description = <<"d">>, !.column = <<"X">>]}

\* what it is asked for while the server answers requests
ServerCliRequests ==
  {NoFields, [NoFields EXCEPT !.description = <<"d">>, !.column = <<"X">>]}

\* the inputs of the server specification
ServerColumnsInputs ==
  {<<[name |-> Done, sortBy |-> UndefinedEnum, sortOrder |-> UndefinedEnum]>>,
   <<[name |-> Todo, sortBy |-> "priority", sortOrder |-> "asc"],
     [name |-> <<" ">> \o Done, sortBy |-> "updated", sortOrder |-> "desc"]>>}

ServerFieldsInputs ==
  {[title |-> <<"b">>, description |-> Undefined, priority |-> UndefinedEnum,
    assignee |-> Undefined]}

----------------------------------------------------------------------------
(* State *)

NoCall ==
  [op |-> "constructor", args |-> <<>>, ok |-> TRUE, error |-> "none",
   emitted |-> <<>>, deliveries |-> <<>>, result |-> Undefined,
   changed |-> {}]

EmptyBoard == [columns |-> <<>>, tasks |-> <<>>]

\* startServer's wiring, with no observer connected yet
Wiring ==
  /\ listeners = <<"sse">>
  /\ lastCall = NoCall
  /\ clock = 0
  /\ nextId = 1
  /\ clients = {}
  /\ stream = [c \in Sinks |-> <<>>]
  /\ applied = [c \in Sinks |-> 0]
  /\ replica = [c \in Sinks |-> EmptyBoard]
  /\ log = <<>>
  /\ joinedAt = [c \in Sinks |-> 0]
  /\ order = <<>>
  /\ faulty = {}
  /\ closedAt = [c \in Sinks |-> -1]
  /\ web = [attached |-> "new", eventSource |-> "null",
            reconnectTimer |-> FALSE,
            reconnectDelay |-> BASE_RECONNECT_DELAY,
            requests |-> 0, responses |-> <<>>,
            failures |-> 0, lastDelay |-> 0]
  /\ ext = [setup |-> "new", sseRequest |-> "undefined",
            reconnectTimer |-> FALSE, reconnectDelay |-> BASE_RECONNECT_DELAY,
            disposed |-> FALSE, closed |-> FALSE,
            requests |-> 0, responses |-> <<>>,
            failures |-> 0, lastDelay |-> 0, strayTimers |-> 0]

\* new BoardStore() with no file present, then startServer's wiring
Init ==
  /\ data = [columns |-> DEFAULT_COLUMNS, tasks |-> <<>>,
             theme |-> UndefinedEnum]
  /\ file = stringify(data)
  /\ Wiring
  /\ toolColumnNames = registerTools(World)

\* the ids of the tasks a call added, removed or changed
Changed(old, new) ==
  {t.id : t \in (Range(old) \ Range(new)) \cup (Range(new) \ Range(old))}

\* the effect of a store call on the state; lastCall keeps its trace
Commit(op, args, w) ==
  /\ data' = w.data
  /\ file' = w.file
  /\ stream' = w.stream
  /\ lastCall' = [op |-> op, args |-> args, ok |-> w.ok, error |-> w.error,
                  emitted |-> w.emitted, deliveries |-> w.deliveries,
                  result |-> w.result,
                  changed |-> Changed(data.tasks, w.data.tasks)]
  /\ UNCHANGED <<listeners, clock, clients, applied, replica, joinedAt,
                  sinkVars, obsVars>>

----------------------------------------------------------------------------
(* Actions *)

CreateTask(title, description, column, priority, assignee) ==
  LET w == createTask(World, title, description, column, priority, assignee,
                      uuidv4(nextId), clock)
  IN /\ w.ok => (Len(data.tasks) < MaxTasks /\ nextId <= MaxIds)
     /\ Commit("createTask",
               <<title, description, column, priority, assignee>>, w)
     /\ nextId' = IF w.ok THEN nextId + 1 ELSE nextId

MoveTask(id, targetColumn) ==
  /\ Commit("moveTask", <<id, targetColumn>>,
            moveTask(World, id, targetColumn, clock))
  /\ UNCHANGED nextId

UpdateTask(id, fields) ==
  /\ Commit("updateTask", <<id, fields>>, updateTask(World, id, fields, clock))
  /\ UNCHANGED nextId

DeleteTask(id) ==
  /\ Commit("deleteTask", <<id>>, deleteTask(World, id))
  /\ UNCHANGED nextId

UpdateColumns(columns) ==
  /\ Commit("updateColumns", <<columns>>, updateColumns(World, columns, clock))
  /\ UNCHANGED nextId

GetBoard ==
  /\ Commit("getBoard", <<>>, getBoard(World))
  /\ UNCHANGED nextId

GetColumns ==
  /\ Commit("getColumns", <<>>, getColumns(World))
  /\ UNCHANGED nextId

GetTasks(column) ==
  /\ Commit("getTasks", <<column>>, getTasks(World, column))
  /\ UNCHANGED nextId

GetTask(id) ==
  /\ Commit("getTask", <<id>>, getTask(World, id))
  /\ UNCHANGED nextId

\* the five mutations, called while the file cannot be written
CreateTaskFailing(title) ==
  LET w == createTask(FailingWorld, title, Undefined, Undefined,
                      UndefinedEnum, Undefined, uuidv4(nextId), clock)
  IN /\ Len(data.tasks) < MaxTasks /\ nextId <= MaxIds
     /\ Commit("createTask",
               <<title, Undefined, Undefined, UndefinedEnum, Undefined>>, w)
     /\ nextId' = nextId + 1

MoveTaskFailing(id, targetColumn) ==
  /\ Commit("moveTask", <<id, targetColumn>>,
            moveTask(FailingWorld, id, targetColumn, clock))
  /\ UNCHANGED nextId

UpdateTaskFailing(id, fields) ==
  /\ Commit("updateTask", <<id, fields>>,
            updateTask(FailingWorld, id, fields, clock))
  /\ UNCHANGED nextId

DeleteTaskFailing(id) ==
  /\ Commit("deleteTask", <<id>>, deleteTask(FailingWorld, id))
  /\ UNCHANGED nextId

UpdateColumnsFailing(columns) ==
  /\ Commit("updateColumns", <<columns>>,
            updateColumns(FailingWorld, columns, clock))
  /\ UNCHANGED nextId

\* a call of the list_tasks tool
ListTasks(args) ==
  /\ Commit("list_tasks", <<args>>,
            toolListTasks(World, toolColumnNames, args))
  /\ UNCHANGED nextId

\* the time passes
Tick ==
  /\ clock < MaxClock
  /\ clock' = clock + 1
  /\ UNCHANGED <<data, file, listeners, lastCall, nextId, sseVars, sinkVars,
                  obsVars>>

\* the effect of a facade handler that ends at time now
CommitAt(op, args, w, now) ==
  /\ now <= MaxClock
  /\ data' = w.data
  /\ file' = w.file
  /\ stream' = w.stream
  /\ clock' = now
  /\ lastCall' = [op |-> op, args |-> args, ok |-> w.ok, error |-> w.error,
                  emitted |-> w.emitted, deliveries |-> w.deliveries,
                  result |-> w.result,
                  changed |-> Changed(data.tasks, w.data.tasks)]
  /\ UNCHANGED <<listeners, clients, applied, replica, joinedAt, sinkVars,
                  obsVars>>

\* the effect of a run of the command line: its store wrote the file; the
\* board the server holds in memory is not read again
CommitCli(op, args, w, now) ==
  /\ now <= MaxClock
  /\ file' = w.file
  /\ clock' = now
  /\ lastCall' = [op |-> op, args |-> args, ok |-> w.ok, error |-> w.error,
                  emitted |-> w.emitted, deliveries |-> w.deliveries,
                  result |-> w.result,
                  changed |-> Changed(load(file).tasks, w.data.tasks)]
  /\ UNCHANGED <<data, listeners, sseVars, sinkVars, obsVars>>

\* the command line's options for a request; --priority defaults to '1'
cliOptions(req, update) ==
  [description |-> req.description, column |-> req.column,
   priority |-> CASE req.priority = UndefinedEnum -> "1"
                  [] req.priority = "P0" -> "0"
                  [] req.priority = "P1" -> "1"
                  [] req.priority = "P2" -> "2",
   assignee |-> req.assignee, update |-> update]

\* a created task fits the bounds
Fits(w) == w.ok => (Len(w.data.tasks) <= MaxTimedTasks /\ nextId <= MaxIds)

RestPostTasks(req) ==
  LET w == restPostTasks(World, req, uuidv4(nextId), clock)
  IN /\ Fits(w)
     /\ CommitAt("POST /tasks", <<req>>, w, clock)
     /\ nextId' = IF w.ok THEN nextId + 1 ELSE nextId

ToolCreateTask(req) ==
  LET w == toolCreateTask(World, req, uuidv4(nextId), clock)
  IN /\ Fits(w)
     /\ CommitAt("create_task", <<req>>, w, clock)
     /\ nextId' = IF w.ok THEN nextId + 1 ELSE nextId

\* kanbrawl task <title>
CliCreate(req) ==
  LET w == taskAction(World, req.title, cliOptions(req, FALSE),
                      uuidv4(nextId), clock, clock)
  IN /\ Fits(w)
     /\ CommitCli("kanbrawl task", <<req>>, w, clock)
     /\ nextId' = IF w.ok THEN nextId + 1 ELSE nextId

\* kanbrawl task <title> --update; the clock advances by delta between the
\* two store calls
CliUpdate(title, req, delta) ==
  LET w == taskAction(World, title, cliOptions(req, TRUE),
                      uuidv4(nextId), clock, clock + delta)
  IN /\ CommitCli("kanbrawl task --update", <<title, req>>, w, clock + delta)
     /\ UNCHANGED nextId

\* PATCH /tasks/:id; the clock advances by delta between the two store
\* calls
RestPatchTask(id, body, delta) ==
  /\ CommitAt("PATCH /tasks/:id", <<id, body>>,
              restPatchTask(World, id, body, clock, clock + delta),
              clock + delta)
  /\ UNCHANGED nextId

ToolUpdateTask(id, args) ==
  /\ CommitAt("update_task", <<id, args>>,
              toolUpdateTask(World, id, args, clock), clock)
  /\ UNCHANGED nextId

ToolMoveTask(id, column) ==
  /\ CommitAt("move_task", <<id, column>>,
              toolMoveTask(World, id, column, clock), clock)
  /\ UNCHANGED nextId

\* DELETE /tasks/:id
RestDeleteTask(id) ==
  /\ CommitAt("DELETE /tasks/:id", <<id>>, restDeleteTask(World, id), clock)
  /\ UNCHANGED nextId

\* kanbrawl task <title> [--update] in a process of its own, while the
\* server runs; the clock advances by delta between its two store calls
CliTask(title, req, update, delta) ==
  LET w == taskAction(World, title, cliOptions(req, update),
                      uuidv4(nextId), clock, clock + delta)
      created == w.ok /\ ~update
  IN /\ created => (Len(w.data.tasks) <= MaxFileTasks /\ nextId <= MaxIds)
     /\ CommitCli(IF update THEN "kanbrawl task --update"
                  ELSE "kanbrawl task",
                  <<title, req>>, w, clock + delta)
     /\ nextId' = IF created THEN nextId + 1 ELSE nextId

MutationOps ==
  {"createTask", "moveTask", "updateTask", "deleteTask", "updateColumns"}
ReadOps == {"getBoard", "getColumns", "getTasks", "getTask"}

IdSet(tasks) == {t.id : t \in Range(tasks)}

\* the caller of the last store method, or a listener given its event,
\* writes to the value it holds
Tamper ==
  /\ lastCall.ok
  /\ lastCall.op \in (ReadOps \cup MutationOps) \ {"deleteTask"}
  /\ lastCall.op = "getTask" => lastCall.args[1] \in IdSet(data.tasks)
  /\ \E ref \in {returned(lastCall.op), payload(lastCall.op)} :
       data' = written(data, ref, lastCall)
  /\ lastCall' = [NoCall EXCEPT !.op = "tamper", !.args = <<lastCall.op>>]
  /\ UNCHANGED <<file, listeners, clock, nextId, sseVars, sinkVars, obsVars>>

\* BoardStore.onChange, with a listener that records what it is given
OnChange(l) ==
  /\ ~includes(listeners, l)
  /\ listeners' = Append(listeners, l)
  /\ lastCall' = [NoCall EXCEPT !.op = "onChange"]
  /\ UNCHANGED <<data, file, clock, nextId, sseVars, sinkVars,
                 closedAt, toolColumnNames,
                  obsVars>>

\* the function onChange returned
Unsubscribe(l) ==
  LET other(x) == x # l
  IN /\ includes(listeners, l)
     /\ listeners' = filter(listeners, other)
     /\ lastCall' = [NoCall EXCEPT !.op = "unsubscribe"]
     /\ UNCHANGED <<data, file, clock, nextId, sseVars, sinkVars,
                    closedAt, toolColumnNames,
                  obsVars>>

\* a new process: new BoardStore() on the file the previous one wrote
Restart ==
  /\ data' = load(file)
  /\ listeners' = <<"sse">>
  /\ lastCall' = NoCall
  /\ UNCHANGED <<file, clock, nextId, sseVars, sinkVars, closedAt, obsVars,
                 toolColumnNames>>

\* startServer in a new process, before any observer connects: new
\* BoardStore() on the file, then createMcpServer registers the tools on it
StartServer ==
  /\ data' = load(file)
  /\ listeners' = <<"sse">>
  /\ lastCall' = NoCall
  /\ toolColumnNames' = registerTools([World EXCEPT !.data = load(file)])
  /\ UNCHANGED <<file, clock, nextId, sseVars, sinkVars, closedAt, obsVars>>

\* GET /events
Connect(c) ==
  LET w == eventsHandler(World, c)
  IN /\ c \notin clients
     /\ clients' = w.clients
     /\ order' = w.order
     /\ stream' = w.stream
     /\ applied' = [applied EXCEPT ![c] = 0]
     /\ joinedAt' = [joinedAt EXCEPT ![c] = Len(log)]
     /\ UNCHANGED <<storeVars, replica, log, faulty>>

\* SSEManager.addClient: the sink's close handler.  What was written to the
\* sink and not yet received is lost with the connection.
Close(c) ==
  LET w == onClose(World, c)
  IN /\ c \in clients
     /\ clients' = w.clients
     /\ order' = w.order
     /\ faulty' = faulty \ {c}
     /\ stream' = [stream EXCEPT ![c] = <<>>]
     /\ applied' = [applied EXCEPT ![c] = 0]
     /\ joinedAt' = [joinedAt EXCEPT ![c] = 0]
     /\ UNCHANGED <<storeVars, replica, log>>

\* the connection of a sink breaks in a way that makes the next write to it
\* raise an error
Break(c) ==
  /\ c \in clients
  /\ c \notin faulty
  /\ faulty' = faulty \cup {c}
  /\ UNCHANGED <<storeVars, sseVars, order>>

\* the observer receives the next message of its channel
Receive(c) ==
  /\ applied[c] < Len(stream[c])
  /\ applied' = [applied EXCEPT ![c] = @ + 1]
  /\ replica' = [replica EXCEPT ![c] = handleEvent(@, stream[c][applied[c] + 1])]
  /\ UNCHANGED <<storeVars, clients, stream, log, joinedAt, sinkVars>>

\* the connection of sink c ends because its observer closed the channel
\* or the channel failed: the server's close handler runs
Hangup(c) ==
  IF c \in clients THEN Close(c)
  ELSE UNCHANGED <<storeVars, sseVars, sinkVars>>

\* GET /events of an observer whose channel is connecting
Accept(c) ==
  /\ \/ c = "web" /\ web.eventSource = "connecting"
     \/ c = "ext" /\ ext.sseRequest = "connecting"
  /\ Connect(c)
  /\ UNCHANGED <<obsVars, closedAt, toolColumnNames>>

\* GET /board of an observer
ServeBoard ==
  /\ \/ web.requests > 0 /\ web' = served(web, World) /\ UNCHANGED ext
     \/ ext.requests > 0 /\ ext' = served(ext, World) /\ UNCHANGED web
  /\ UNCHANGED <<storeVars, sseVars, sinkVars, closedAt, toolColumnNames>>

\* the observer may send one more GET /board
CanFetch(o) == o.requests + Len(o.responses) < MaxFetches

\* KanbrawlApp.connectedCallback
WebConnectedCallback ==
  /\ web.attached = "new" /\ ext.setup = "new"
  /\ CanFetch(web)
  /\ web' = connectSSE(loadBoard([web EXCEPT !.attached = "attached"]))
  /\ Hangup("web")
  /\ UNCHANGED <<ext, closedAt, toolColumnNames>>

\* the EventSource's open event
WebOpen ==
  /\ web.eventSource = "connecting" /\ "web" \in clients
  /\ CanFetch(web)
  /\ web' = loadBoard([web EXCEPT !.eventSource = "open",
                                  !.reconnectDelay = BASE_RECONNECT_DELAY,
                                  !.failures = 0])
  /\ UNCHANGED <<storeVars, sseVars, sinkVars, ext, closedAt, toolColumnNames>>

\* the EventSource delivers the next message of the channel
WebMessage ==
  /\ web.eventSource = "open"
  /\ applied["web"] < Len(stream["web"])
  /\ LET event == stream["web"][applied["web"] + 1]
     IN /\ replica' = [replica EXCEPT !["web"] = onMessage(@, event)]
        /\ web' = IF event.type = "board_sync"
                  THEN [web EXCEPT !.reconnectDelay = BASE_RECONNECT_DELAY,
                                   !.failures = 0]
                  ELSE web
  /\ applied' = [applied EXCEPT !["web"] = @ + 1]
  /\ UNCHANGED <<storeVars, clients, stream, log, joinedAt, sinkVars, ext,
                  closedAt, toolColumnNames>>

\* the EventSource's error event
WebError ==
  /\ web.eventSource # "null"
  /\ web.failures < MaxFailures
  /\ web' = scheduleReconnect([web EXCEPT !.eventSource = "null"])
  /\ Hangup("web")
  /\ UNCHANGED <<ext, closedAt, toolColumnNames>>

\* the reconnect timer of the web application fires
WebTimer ==
  /\ web.reconnectTimer
  /\ web' = connectSSE([web EXCEPT !.reconnectTimer = FALSE])
  /\ Hangup("web")
  /\ UNCHANGED <<ext, closedAt, toolColumnNames>>

\* the response of a GET /board reaches loadBoard
WebLoaded ==
  \E i \in 1..Len(web.responses) :
    /\ replica' = [replica EXCEPT !["web"] = web.responses[i]]
    /\ web' = [web EXCEPT !.responses = without(@, i)]
    /\ UNCHANGED <<storeVars, clients, stream, applied, log, joinedAt,
                    sinkVars, ext, closedAt, toolColumnNames>>

\* KanbrawlApp.disconnectedCallback
WebDisconnectedCallback ==
  /\ web.attached = "attached"
  /\ web' = closeSSE([web EXCEPT !.attached = "detached"])
  /\ Hangup("web")
  /\ UNCHANGED <<ext, closedAt, toolColumnNames>>

\* setupBoard, up to the await of treeProvider.loadBoard()
ExtSetup ==
  /\ ext.setup = "new" /\ web.attached = "new"
  /\ CanFetch(ext)
  /\ ext' = loadBoard([ext EXCEPT !.setup = "loading"])
  /\ UNCHANGED <<storeVars, sseVars, sinkVars, web, closedAt, toolColumnNames>>

\* the response of GET /board reaches BoardTreeProvider.loadBoard, and
\* setupBoard goes on to apiClient.connectSSE
ExtLoaded ==
  \E i \in 1..Len(ext.responses) :
    LET rest == [ext EXCEPT !.responses = without(@, i)]
    IN /\ replica' = [replica EXCEPT !["ext"] = ext.responses[i]]
       /\ ext' = IF ext.setup = "loading"
                 THEN apiConnectSSE([rest EXCEPT !.setup = "running"])
                 ELSE rest
       /\ UNCHANGED <<storeVars, clients, stream, applied, log, joinedAt,
                       sinkVars, web, closedAt, toolColumnNames>>

\* the response of GET /events, with status 200
ExtResponse ==
  /\ ext.sseRequest = "connecting" /\ "ext" \in clients
  /\ ext' = [ext EXCEPT !.sseRequest = "open",
                        !.reconnectDelay = 1000,
                        !.failures = 0]
  /\ UNCHANGED <<storeVars, sseVars, sinkVars, web, closedAt, toolColumnNames>>

\* the response's data event, one message at a time
ExtData ==
  /\ ext.sseRequest = "open"
  /\ Receive("ext")
  /\ UNCHANGED <<obsVars, closedAt, toolColumnNames>>

\* the end or error event of the response, or the error event of the
\* request
ExtFail ==
  /\ ext.sseRequest \in {"connecting", "open"}
  /\ ext.failures < MaxFailures
  /\ ext' = apiScheduleReconnect([ext EXCEPT !.sseRequest = "failed"])
  /\ Hangup("ext")
  /\ UNCHANGED <<web, closedAt, toolColumnNames>>

\* the reconnect timer of the extension's client fires.  Timers fire in the
\* order of their expiry: a timer whose handle was overwritten was set
\* earlier and with a delay no longer, so it fires first.
ExtTimer ==
  /\ ext.reconnectTimer
  /\ ext.strayTimers = 0
  /\ ext' = startSSE([ext EXCEPT !.reconnectTimer = FALSE])
  /\ Hangup("ext")
  /\ UNCHANGED <<web, closedAt, toolColumnNames>>

\* one more of the callbacks startSSE registered (the end or error event of
\* the response, the error event of the request) reports the failure of a
\* channel that already reported it
ExtFailAgain ==
  /\ ext.sseRequest = "failed"
  /\ ext.strayTimers < MaxStray
  /\ ext.failures < MaxFailures
  /\ ext' = apiScheduleReconnect(ext)
  /\ UNCHANGED <<storeVars, sseVars, sinkVars, web, closedAt, toolColumnNames>>

\* a timer whose handle was overwritten fires: its callback is startSSE
ExtStrayTimer ==
  /\ ext.strayTimers > 0
  /\ ext' = startSSE([ext EXCEPT !.strayTimers = @ - 1])
  /\ Hangup("ext")
  /\ UNCHANGED <<web, closedAt, toolColumnNames>>

\* the extension is deactivated: KanbrawlApiClient.dispose
ExtDispose ==
  /\ ext.setup # "new" /\ ~ext.closed
  /\ ext' = dispose([ext EXCEPT !.closed = TRUE])
  /\ Hangup("ext")
  /\ UNCHANGED <<web, closedAt, toolColumnNames>>

----------------------------------------------------------------------------
(* Specifications *)

\* a step of the store on its own: the log of the server is not kept
Untracked(A) == A /\ UNCHANGED <<log, closedAt, toolColumnNames>>

\* the store, with recording listeners
Next ==
  \/ Untracked(\E t \in TitleInputs, c \in ColumnRefInputs \cup {Undefined},
                  p \in PriorityInputs :
                 CreateTask(t, Undefined, c, p, Undefined))
  \/ Untracked(\E id \in IdInputs, c \in ColumnRefInputs : MoveTask(id, c))
  \/ Untracked(\E f \in FieldsInputs : UpdateTask(1, f))
  \/ Untracked(\E id \in IdInputs : DeleteTask(id))
  \/ Untracked(\E cols \in ColumnsInputs : UpdateColumns(cols))
  \/ Untracked(GetBoard)
  \/ Untracked(GetColumns)
  \/ Untracked(GetTasks(Blocked))
  \/ Untracked(GetTask(1))
  \/ OnChange("rec")
  \/ Unsubscribe("rec")
  \/ Restart

Spec == Init /\ [][Next]_vars

\* a step of the store in the server: the log keeps the events it emits
Tracked(A) ==
  /\ Len(log) < MaxEvents
  /\ A
  /\ log' = log \o lastCall'.emitted
  /\ UNCHANGED <<closedAt, toolColumnNames>>

\* the server: the store wired to the broadcaster, and its observers
ServerNext ==
  \/ Tracked(CreateTask(<<"a">>, Undefined, Blocked, UndefinedEnum, Undefined))
  \/ Tracked(MoveTask(1, Done))
  \/ Tracked(\E f \in ServerFieldsInputs : UpdateTask(1, f))
  \/ Tracked(DeleteTask(1))
  \/ Tracked(\E cols \in ServerColumnsInputs : UpdateColumns(cols))
  \/ \E c \in Clients : Connect(c)
       /\ UNCHANGED <<closedAt, toolColumnNames, obsVars>>
  \/ \E c \in Clients : Close(c)
       /\ UNCHANGED <<closedAt, toolColumnNames, obsVars>>
  \/ \E c \in Clients : Receive(c)
       /\ UNCHANGED <<closedAt, toolColumnNames, obsVars>>

ServerSpec == Init /\ [][ServerNext]_vars

\* the server and one observer that loses and reopens its channel
ObserverNext ==
  \/ Tracked(CreateTask(<<"a">>, Undefined, Blocked, UndefinedEnum, Undefined))
  \/ Tracked(MoveTask(1, Done))
  \/ \E c \in {"web", "ext"} : Accept(c)
  \/ ServeBoard
  \/ WebConnectedCallback
  \/ WebOpen
  \/ WebMessage
  \/ WebError
  \/ WebTimer
  \/ WebLoaded
  \/ WebDisconnectedCallback
  \/ ExtSetup
  \/ ExtLoaded
  \/ ExtResponse
  \/ ExtData
  \/ ExtFail
  \/ ExtTimer
  \/ ExtDispose

ObserverSpec == Init /\ [][ObserverNext]_vars

\* the timers of the observers fire, the server answers the requests that
\* reach it, and what it wrote to a channel is delivered
ObserverFairness ==
  /\ WF_vars(WebTimer)
  /\ WF_vars(ExtTimer)
  /\ \A c \in {"web", "ext"} : WF_vars(Accept(c))
  /\ WF_vars(ServeBoard)
  /\ WF_vars(WebLoaded)
  /\ WF_vars(ExtLoaded)
  /\ WF_vars(WebOpen)
  /\ WF_vars(WebMessage)
  /\ WF_vars(ExtResponse)
  /\ WF_vars(ExtData)

\* the server and its observers, with timers that fire and messages that
\* are delivered
FairObserverNext ==
  \/ Tracked(CreateTask(<<"a">>, Undefined, Blocked, UndefinedEnum, Undefined))
  \/ \E c \in {"web", "ext"} : Accept(c)
  \/ ServeBoard
  \/ WebConnectedCallback
  \/ WebOpen
  \/ WebMessage
  \/ WebError
  \/ WebTimer
  \/ WebLoaded
  \/ WebDisconnectedCallback
  \/ ExtSetup
  \/ ExtLoaded
  \/ ExtResponse
  \/ ExtData
  \/ ExtFail
  \/ ExtTimer
  \/ ExtDispose

FairObserverSpec == Init /\ [][FairObserverNext]_vars /\ ObserverFairness

\* the server and the extension's client, whose channel may report one
\* failure through several callbacks
CallbackNext ==
  \/ Tracked(CreateTask(<<"a">>, Undefined, Blocked, UndefinedEnum, Undefined))
  \/ Accept("ext")
  \/ ServeBoard
  \/ ExtSetup
  \/ ExtLoaded
  \/ ExtResponse
  \/ ExtData
  \/ ExtFail
  \/ ExtFailAgain
  \/ ExtTimer
  \/ ExtStrayTimer
  \/ ExtDispose

CallbackSpec == Init /\ [][CallbackNext]_vars

\* the store with a clock that advances
TimedNext ==
  \/ Untracked(/\ Len(data.tasks) < MaxTimedTasks
               /\ CreateTask(<<"a">>, Undefined, Blocked, UndefinedEnum,
                             Undefined))
  \/ Untracked(\E id \in IdInputs : MoveTask(id, Done))
  \/ Untracked(\E id \in IdInputs, f \in FieldsInputs : UpdateTask(id, f))
  \/ Untracked(\E id \in IdInputs : DeleteTask(id))
  \/ Untracked(\E cols \in ServerColumnsInputs : UpdateColumns(cols))
  \/ Untracked(Tick)
  \/ Restart

TimedSpec == Init /\ [][TimedNext]_vars

\* the store behind its facades
FacadeNext ==
  \/ Untracked(\E req \in CreateRequests : RestPostTasks(req))
  \/ Untracked(\E req \in CreateRequests : ToolCreateTask(req))
  \/ Untracked(\E req \in CreateRequests : CliCreate(req))
  \/ Untracked(\E req \in UpdateRequests, d \in Deltas :
                 RestPatchTask(1, req, d))
  \/ Untracked(\E req \in UpdateRequests : ToolUpdateTask(1, req))
  \/ Untracked(ToolMoveTask(1, Done))
  \/ Untracked(\E req \in UpdateRequests, d \in Deltas :
                 CliUpdate(<<"A">>, req, d))
  \/ Restart

FacadeSpec == Init /\ [][FacadeNext]_vars

\* the store under updateTask requests on its first task, with a clock that
\* advances
UpdateNext ==
  \/ Untracked(CreateTask(<<"a">>, Undefined, Undefined, UndefinedEnum,
                          Undefined))
  \/ Untracked(\E f \in FieldsRequests : UpdateTask(1, f))
  \/ Untracked(Tick)

UpdateSpec == Init /\ [][UpdateNext]_vars

\* the store with callers and listeners that write to what they are given
IsolationNext ==
  \/ Untracked(CreateTask(<<"a">>, Undefined, Blocked, UndefinedEnum,
                          Undefined))
  \/ Untracked(MoveTask(1, Done))
  \/ Untracked(\E f \in ServerFieldsInputs : UpdateTask(1, f))
  \/ Untracked(\E cols \in ServerColumnsInputs : UpdateColumns(cols))
  \/ Untracked(GetBoard)
  \/ Untracked(GetColumns)
  \/ Untracked(GetTasks(Blocked))
  \/ Untracked(GetTask(1))
  \/ Untracked(Tamper)

IsolationSpec == Init /\ [][IsolationNext]_vars

\* new BoardStore() on a file that exists, then startServer's wiring
LoadInit ==
  /\ \E i \in 1..Len(LegacyFiles) : file = LegacyFiles[i]
  /\ data = load(file)
  /\ Wiring
  /\ toolColumnNames = registerTools(World)

\* the store constructed from a file of an earlier run
LoadNext ==
  \/ Untracked(CreateTask(<<"a">>, Undefined, Undefined, UndefinedEnum,
                          Undefined))
  \/ Untracked(\E id \in {0, 1}, c \in {Todo, Blocked} : MoveTask(id, c))
  \/ Untracked(\E id \in {0, 1} : DeleteTask(id))
  \/ Untracked(\E cols \in ServerColumnsInputs : UpdateColumns(cols))
  \/ Restart

LoadSpec == LoadInit /\ [][LoadNext]_vars

\* the store on a file that can be written at some calls and not at others
DiskNext ==
  \/ Untracked(CreateTask(<<"a">>, Undefined, Undefined, UndefinedEnum,
                          Undefined))
  \/ Untracked(\E id \in IdInputs : MoveTask(id, Done))
  \/ Untracked(\E id \in IdInputs, f \in ServerFieldsInputs :
                 UpdateTask(id, f))
  \/ Untracked(\E id \in IdInputs : DeleteTask(id))
  \/ Untracked(\E cols \in ServerColumnsInputs : UpdateColumns(cols))
  \/ Untracked(CreateTaskFailing(<<"a">>))
  \/ Untracked(\E id \in IdInputs : MoveTaskFailing(id, Done))
  \/ Untracked(\E id \in IdInputs, f \in ServerFieldsInputs :
                 UpdateTaskFailing(id, f))
  \/ Untracked(\E id \in IdInputs : DeleteTaskFailing(id))
  \/ Untracked(\E cols \in ServerColumnsInputs : UpdateColumnsFailing(cols))

DiskSpec == Init /\ [][DiskNext]_vars

\* the command line alone, run again and again on one file
CliNext ==
  \/ Untracked(\E t \in CliTitles, req \in CliRequests :
                 CliTask(t, req, FALSE, 0))
  \/ Untracked(\E t \in CliTitles, req \in CliRequests :
                 CliTask(t, req, TRUE, 0))

CliSpec == Init /\ [][CliNext]_vars

\* the server answering REST requests while the command line runs on the
\* same file
RequestNext ==
  \/ Untracked(\E body \in PostBodies : RestPostTasks(body))
  \/ Untracked(\E id \in IdInputs, body \in PatchBodies :
                 RestPatchTask(id, body, 0))
  \/ Untracked(\E id \in IdInputs : RestDeleteTask(id))
  \/ Untracked(\E req \in ServerCliRequests, u \in BOOLEAN :
                 CliTask(<<"a">>, req, u, 0))
  \/ Restart

RequestSpec == Init /\ [][RequestNext]_vars

\* startServer on a file that holds tasks: the store is constructed, then
\* createMcpServer registers the tools
ToolInit ==
  /\ file \in ToolFiles
  /\ data = load(file)
  /\ Wiring
  /\ toolColumnNames = registerTools(World)

\* the tools of a running server, whose columns are replaced meanwhile
ToolNext ==
  \/ Untracked(\E args \in ListTasksInputs : ListTasks(args))
  \/ Untracked(\E cols \in ToolColumnsInputs : UpdateColumns(cols))
  \/ StartServer

ToolSpec == ToolInit /\ [][ToolNext]_vars

\* a step that registers or closes sink c: closedAt keeps how many events
\* the store had emitted when the sink closed
Noted(A, c, at) ==
  A /\ closedAt' = [closedAt EXCEPT ![c] = at]
    /\ UNCHANGED <<obsVars, toolColumnNames>>

\* the server with sinks that close and sinks whose write raises an error
SinkNext ==
  \/ Tracked(CreateTask(<<"a">>, Undefined, Blocked, UndefinedEnum, Undefined))
  \/ Tracked(MoveTask(1, Done))
  \/ Tracked(DeleteTask(1))
  \/ \E c \in Clients : Noted(Connect(c), c, -1)
  \/ \E c \in Clients : Noted(Close(c), c, Len(log))
  \/ \E c \in Clients : Break(c)
       /\ UNCHANGED <<closedAt, toolColumnNames, obsVars>>

SinkSpec == Init /\ [][SinkNext]_vars

----------------------------------------------------------------------------
(* Properties of the store *)

EventType(op) ==
  CASE op = "createTask" -> "task_created"
    [] op = "moveTask" -> "task_moved"
    [] op = "updateTask" -> "task_updated"
    [] op = "deleteTask" -> "task_deleted"
    [] op = "updateColumns" -> "columns_updated"

NameSet(columns) == Range(columnNames(columns))

\* the step is a call of a store method
IsCall ==
  \/ lastCall'.op # lastCall.op
  \/ lastCall'.args # lastCall.args
  \/ lastCall'.ok # lastCall.ok
  \/ lastCall'.changed # lastCall.changed
  \/ data' # data

\* the call of the step emitted nothing
NoEvent == lastCall'.emitted = <<>> /\ lastCall'.deliveries = <<>>

\* C1: every task's column is the name of a column of the current column
\* list, in every state reachable by store calls and by reloading the file
\* the store wrote.
C1_TaskColumnExists ==
  \A i \in 1..Len(data.tasks) : data.tasks[i].column \in NameSet(data.columns)

\* updateColumns removed the column of a task, which now sits in a column
\* that is not one of the default ones
C1_Witness ==
  /\ lastCall.op = "updateColumns" /\ lastCall.ok
  /\ \E i \in 1..Len(data.tasks) :
       /\ data.tasks[i].id \in lastCall.changed
       /\ data.tasks[i].column = lower

\* the names of an updateColumns input are all empty after trimming
AllBlank(columns) == \A i \in 1..Len(columns) : trim(columns[i].name) = <<>>

\* C2: the column list is never empty; an updateColumns call whose input is
\* empty or holds only names that are empty after trimming is rejected,
\* leaves columns, tasks and file unchanged and emits no event.
C2_ColumnsNeverEmpty ==
  /\ [](Len(data.columns) > 0)
  /\ [][(IsCall /\ lastCall'.op = "updateColumns"
           /\ AllBlank(lastCall'.args[1])) =>
          /\ ~lastCall'.ok
          /\ data' = data
          /\ file' = file
          /\ NoEvent]_vars

\* an input of two white-space names was rejected on a board holding a task
C2_Witness ==
  /\ lastCall.op = "updateColumns" /\ lastCall.error = "noname"
  /\ Len(lastCall.args[1]) = 2
  /\ Len(data.tasks) > 0

\* the positions of the columns the caller offered that survive: trimmed
\* name not empty and not offered at an earlier position
FirstOccurrences(columns) ==
  {i \in 1..Len(columns) :
     /\ trim(columns[i].name) # <<>>
     /\ \A j \in 1..(i - 1) : trim(columns[j].name) # trim(columns[i].name)}

\* C3: stored column names are pairwise distinct, non-empty and trimmed; of
\* names that collide after trimming updateColumns keeps the first
\* occurrence, and the kept columns are in the caller's order.
C3_ColumnNamesUnique ==
  /\ \A i, j \in 1..Len(data.columns) :
       i # j => data.columns[i].name # data.columns[j].name
  /\ \A i \in 1..Len(data.columns) :
       /\ data.columns[i].name # <<>>
       /\ trim(data.columns[i].name) = data.columns[i].name
  /\ (lastCall.op = "updateColumns" /\ lastCall.ok) =>
       LET input == lastCall.args[1]
           kept == FirstOccurrences(input)
       IN /\ Len(data.columns) = Cardinality(kept)
          /\ \A i \in kept :
               LET rank == Cardinality({j \in kept : j <= i})
               IN /\ data.columns[rank].name = trim(input[i].name)
                  /\ data.columns[rank].sortBy =
                       (IF input[i].sortBy = UndefinedEnum THEN "created"
                        ELSE input[i].sortBy)

\* two different offered names collided after trimming, one column was stored
C3_Witness ==
  /\ lastCall.op = "updateColumns" /\ lastCall.ok
  /\ Len(lastCall.args[1]) = 2
  /\ lastCall.args[1][1].name # lastCall.args[1][2].name
  /\ trim(lastCall.args[1][1].name) = trim(lastCall.args[1][2].name)
  /\ Len(data.columns) = 1

\* the column names the step removes
Removed == NameSet(data.columns) \ NameSet(data'.columns)

\* C4: a successful updateColumns that removes columns moves every task of a
\* removed column to the first column of the new list, deletes no task,
\* changes no task of a kept column, and emits exactly one columns_updated
\* event and no task-level event.
C4_RemovedColumnTasksReassigned ==
  [][(lastCall'.op = "updateColumns" /\ lastCall'.ok /\ Removed # {}) =>
       /\ Len(data'.tasks) = Len(data.tasks)
       /\ \A i \in 1..Len(data.tasks) :
            IF data.tasks[i].column \in Removed
            THEN /\ data'.tasks[i].column = data'.columns[1].name
                 /\ data'.tasks[i].id = data.tasks[i].id
            ELSE data'.tasks[i] = data.tasks[i]
       /\ lastCall'.emitted =
            <<[type |-> "columns_updated", columns |-> data'.columns]>>
       /\ Len(lastCall'.deliveries) = Len(listeners)
       /\ \A k \in 1..Len(lastCall'.deliveries) :
            /\ lastCall'.deliveries[k].listener = listeners[k]
            /\ lastCall'.deliveries[k].event.type = "columns_updated"]_vars

\* of two tasks, updateColumns moved the one whose column it removed and
\* left the other in its kept column
C4_Witness ==
  /\ lastCall.op = "updateColumns" /\ lastCall.ok
  /\ Len(data.tasks) = 2
  /\ Cardinality(lastCall.changed) = 1
  /\ data.tasks[1].column # data.tasks[2].column

\* the call of the step is one the store has to reject, given the board it
\* is made on
MustFail ==
  LET op == lastCall'.op
      args == lastCall'.args
  IN \/ op \in {"moveTask", "updateTask", "deleteTask"}
          /\ args[1] \notin IdSet(data.tasks)
     \/ op = "moveTask" /\ args[2] \notin NameSet(data.columns)
     \/ op = "createTask" /\ args[3] # Undefined
          /\ args[3] \notin NameSet(data.columns)
     \/ op = "updateColumns" /\ AllBlank(args[1])

\* C5: a store call on an unknown id, on a column that is not in the list,
\* or with columns that leave none, fails; a call that fails leaves the
\* in-memory board and the file as they were and emits no event.
C5_FailureChangesNothing ==
  [][/\ (IsCall /\ MustFail) => ~lastCall'.ok
     /\ ~lastCall'.ok => (data' = data /\ file' = file /\ NoEvent)]_vars

\* deleteTask failed on an unknown id while the board held a task
C5_Witness ==
  /\ lastCall.op = "deleteTask" /\ lastCall.error = "notfound"
  /\ Len(data.tasks) > 0

\* C6: when a listener receives the event of a mutation, the file already
\* holds the board as the mutation left it.
C6_PersistBeforeEmit ==
  /\ \A k \in 1..Len(lastCall.deliveries) : lastCall.deliveries[k].persisted
  /\ lastCall.deliveries # <<>> => file = stringify(data)

\* two listeners received the event of a task creation
C6_Witness ==
  /\ lastCall.op = "createTask" /\ lastCall.ok
  /\ Len(lastCall.deliveries) = 2

\* C7: a successful mutation delivers exactly one event to each registered
\* listener, of the type of the mutation; read accessors emit none.
C7_OneEventPerMutation ==
  /\ (lastCall.op \in MutationOps /\ lastCall.ok) =>
       /\ Len(lastCall.emitted) = 1
       /\ lastCall.emitted[1].type = EventType(lastCall.op)
       /\ Len(lastCall.deliveries) = Len(listeners)
       /\ \A k \in 1..Len(lastCall.deliveries) :
            /\ lastCall.deliveries[k].listener = listeners[k]
            /\ lastCall.deliveries[k].event = lastCall.emitted[1]
  /\ lastCall.op \in ReadOps =>
       lastCall.emitted = <<>> /\ lastCall.deliveries = <<>>

\* a task was moved while two listeners were registered
C7_Witness ==
  /\ lastCall.op = "moveTask" /\ lastCall.ok
  /\ Len(listeners) = 2
  /\ Len(lastCall.deliveries) = 2

\* C21: createTask with column, priority, assignee and description omitted
\* creates a task in the first column of the store's current column list,
\* with priority P1 and empty assignee and description.
C21_CreateDefaults ==
  [][(/\ lastCall'.op = "createTask"
      /\ lastCall'.args[2] = Undefined
      /\ lastCall'.args[3] = Undefined
      /\ lastCall'.args[4] = UndefinedEnum
      /\ lastCall'.args[5] = Undefined
      /\ Len(data.columns) > 0) =>
       /\ lastCall'.ok
       /\ lastCall'.result.title = lastCall'.args[1]
       /\ lastCall'.result.column = data.columns[1].name
       /\ lastCall'.result.priority = "P1"
       /\ lastCall'.result.assignee = <<>>
       /\ lastCall'.result.description = <<>>
       /\ data'.tasks = Append(data.tasks, lastCall'.result)]_vars

\* a task was created with no column named after updateColumns had replaced
\* the first column
C21_Witness ==
  /\ lastCall.op = "createTask" /\ lastCall.ok
  /\ lastCall.args[3] = Undefined
  /\ data.columns[1].name = lower
  /\ lastCall.result.column = lower

\* C22: moveTask of a known task to an existing column, the task's own one
\* included, returns the task with the target column, emits task_moved with
\* the column the task had before the call, and changes nothing of the task
\* but column and updatedAt, no other task and no column.
C22_MoveTask ==
  [][(/\ lastCall'.op = "moveTask"
      /\ lastCall'.args[1] \in IdSet(data.tasks)
      /\ lastCall'.args[2] \in NameSet(data.columns)) =>
       LET i == findIndex(data.tasks, lastCall'.args[1])
       IN /\ lastCall'.ok
          /\ lastCall'.result.column = lastCall'.args[2]
          /\ lastCall'.result = data'.tasks[i]
          /\ lastCall'.emitted =
               <<[type |-> "task_moved", task |-> lastCall'.result,
                  fromColumn |-> data.tasks[i].column]>>
          /\ Len(data'.tasks) = Len(data.tasks)
          /\ data'.tasks[i] =
               [data.tasks[i] EXCEPT !.column = lastCall'.args[2],
                                     !.updatedAt = data'.tasks[i].updatedAt]
          /\ \A j \in 1..Len(data.tasks) :
               j # i => data'.tasks[j] = data.tasks[j]
          /\ data'.columns = data.columns]_vars

\* of two tasks, one was moved to the column it was in
C22_Witness ==
  /\ lastCall.op = "moveTask" /\ lastCall.ok
  /\ Len(data.tasks) = 2
  /\ lastCall.emitted[1].fromColumn = lastCall.args[2]
  /\ lastCall.result.column = lastCall.args[2]

TaskFields == {"title", "description", "priority", "assignee"}

\* the request supplies field k
Supplied(fields, k) ==
  IF k = "priority" THEN fields[k] # UndefinedEnum ELSE fields[k] # Undefined

\* C23: updateTask changes exactly those of title, description, priority
\* and assignee that are supplied, plus updatedAt; id, column, createdAt,
\* the unsupplied fields, the other tasks and the columns are unchanged.
C23_UpdateOnlySupplied ==
  [][(/\ IsCall
      /\ lastCall'.op = "updateTask"
      /\ lastCall'.args[1] \in IdSet(data.tasks)) =>
       LET i == findIndex(data.tasks, lastCall'.args[1])
           fields == lastCall'.args[2]
       IN /\ lastCall'.ok
          /\ Len(data'.tasks) = Len(data.tasks)
          /\ \A k \in TaskFields :
               data'.tasks[i][k] =
                 (IF Supplied(fields, k) THEN fields[k] ELSE data.tasks[i][k])
          /\ data'.tasks[i].updatedAt = clock
          /\ data'.tasks[i].id = data.tasks[i].id
          /\ data'.tasks[i].column = data.tasks[i].column
          /\ data'.tasks[i].createdAt = data.tasks[i].createdAt
          /\ \A j \in 1..Len(data.tasks) :
               j # i => data'.tasks[j] = data.tasks[j]
          /\ data'.columns = data.columns
          /\ lastCall'.result = data'.tasks[i]
          /\ lastCall'.emitted =
               <<[type |-> "task_updated", task |-> data'.tasks[i]]>>]_vars

\* of two tasks, the first was given a description and a priority at a
\* later time than its creation and kept its title and assignee
C23_Witness ==
  /\ lastCall.op = "updateTask" /\ lastCall.ok
  /\ Len(data.tasks) = 2
  /\ lastCall.args[2].title = Undefined
  /\ lastCall.args[2].description = <<"e">>
  /\ data.tasks[1].title = <<"c">>
  /\ data.tasks[1].assignee = <<"x">>
  /\ data.tasks[1].priority = "P0"
  /\ data.tasks[1].updatedAt > data.tasks[1].createdAt

\* C27: of two updateTask requests on the same task made one after the
\* other, in either order, both succeed; every field the later one supplies
\* has the later one's value and every field only the earlier one supplies
\* keeps the earlier one's value.
C27_LaterUpdateWins ==
  [][(/\ lastCall.op = "updateTask"
      /\ lastCall'.op = "updateTask"
      /\ lastCall'.args[1] = lastCall.args[1]
      /\ lastCall'.args[1] \in IdSet(data.tasks)) =>
       LET earlier == lastCall.args[2]
           later == lastCall'.args[2]
           task == data'.tasks[findIndex(data'.tasks, lastCall'.args[1])]
       IN /\ lastCall.ok
          /\ lastCall'.ok
          /\ \A k \in TaskFields :
               /\ Supplied(later, k) => task[k] = later[k]
               /\ (~Supplied(later, k) /\ Supplied(earlier, k)) =>
                    task[k] = earlier[k]]_vars

\* the only task went through requests that gave it title c and
\* description d, and then one that supplied title b alone
C27_Witness ==
  /\ lastCall.op = "updateTask" /\ lastCall.ok
  /\ Len(data.tasks) = 1
  /\ lastCall.args[2].title = <<"b">>
  /\ lastCall.args[2].description = Undefined
  /\ data.tasks[1].title = <<"b">>
  /\ data.tasks[1].description = <<"d">>
  /\ data.tasks[1].priority = "P1"
  /\ data.tasks[1].assignee = <<>>

\* C24: whatever a caller does to a value a read accessor or a mutation
\* returned, or a listener to the payload of an event, the store's board
\* and the persisted file are as if the value had not been touched.
C24_ReturnedValuesIsolated ==
  [][lastCall'.op = "tamper" => (data' = data /\ file' = file)]_vars

\* the caller of getTask wrote to the task it was returned
C24_Witness ==
  /\ lastCall.op = "tamper"
  /\ lastCall.args[1] = "getTask"
  /\ Len(data.tasks) > 0

IsWord(s, lo, up) ==
  /\ Len(s) = Len(lo)
  /\ \A i \in 1..Len(lo) : s[i] \in {lo[i], up[i]}

\* the sort policy a column of a file is to get
MigratedPolicy(col) ==
  IF "string" \in DOMAIN col
  THEN IF IsWord(col.string, <<"t", "o", "d", "o">>, <<"T", "O", "D", "O">>)
       THEN <<"priority", "asc">>
       ELSE IF IsWord(col.string, <<"d", "o", "n", "e">>,
                      <<"D", "O", "N", "E">>)
       THEN <<"updated", "desc">>
       ELSE <<"created", "asc">>
  ELSE <<IF "sortBy" \in DOMAIN col THEN col.sortBy ELSE "created",
         IF "sortOrder" \in DOMAIN col THEN col.sortOrder ELSE "asc">>

C33_FileIsMemory == file = stringify(data)

----------------------------------------------------------------------------
(* Properties of the server and its observers *)

\* the events the broadcaster wrote to sink c: everything but the snapshot
\* the GET /events handler wrote
Pushed(c) ==
  LET isPush(m) == m.type # "board_sync"
  IN filter(stream[c], isPush)

\* the events the store emitted since sink c was registered
EmittedSince(c) == SubSeq(log, joinedAt[c] + 1, Len(log))

\* C8: every event the store emits is written to every sink registered at
\* that time, once, and each sink gets the events in emission order.
C8_BroadcastInOrder ==
  \A c \in clients : Pushed(c) = EmittedSince(c)

\* two sinks registered at different times, both were written events
C8_Witness ==
  /\ clients = Clients
  /\ joinedAt["c1"] # joinedAt["c2"]
  /\ Len(Pushed("c1")) >= 2
  /\ Len(Pushed("c2")) >= 1

\* C9: the first message written to a new observer is a board_sync with the
\* store's board at connection time, and the events of the mutations that
\* complete after the connection follow it, none missing.
C9_SnapshotFirst ==
  /\ [][\A c \in Clients :
          (c \notin clients /\ c \in clients') =>
             /\ stream'[c] =
                  <<[type |-> "board_sync", board |-> stringify(data)]>>
             /\ data' = data]_vars
  /\ [](\A c \in clients :
          /\ Len(stream[c]) = 1 + Len(log) - joinedAt[c]
          /\ stream[c][1].type = "board_sync"
          /\ \A i \in 2..Len(stream[c]) :
               stream[c][i] = log[joinedAt[c] + i - 1])

\* an observer connected to a board holding a task and was then written
\* the event of a later mutation
C9_Witness ==
  \E c \in clients :
    /\ Len(stream[c]) >= 2
    /\ stream[c][1].type = "board_sync"
    /\ Len(stream[c][1].board.tasks) > 0
    /\ stream[c][2].type # "board_sync"

\* C10: once an observer that stayed connected has applied every event
\* pushed to it, its replica's columns and tasks equal the store's.
C10_ReplicaConverges ==
  \A c \in clients :
    (Len(stream[c]) > 0 /\ applied[c] = Len(stream[c])) =>
       /\ replica[c].columns = data.columns
       /\ replica[c].tasks = data.tasks

----------------------------------------------------------------------------
(* Properties of the observers' reconnection *)

\* C11: once the web observer has applied every message of its channel and
\* every GET /board response, in whatever order they arrived, its replica
\* equals the store's board.
C11_RefetchConverges ==
  (/\ web.eventSource = "open"
   /\ "web" \in clients
   /\ Len(stream["web"]) > 0
   /\ applied["web"] = Len(stream["web"])
   /\ web.requests = 0
   /\ web.responses = <<>>) =>
    /\ replica["web"].columns = data.columns
    /\ replica["web"].tasks = data.tasks

\* the delay of the k-th reconnect in a row: 1s, 2s, 4s, 8s, 16s, 30s, 30s
ExpectedDelay(k) ==
  Min(BASE_RECONNECT_DELAY * 2 ^ (k - 1), MAX_RECONNECT_DELAY)

\* the step delivers a board_sync to observer c
GetsBoardSync(c) ==
  /\ applied'[c] = applied[c] + 1
  /\ stream[c][applied'[c]].type = "board_sync"

\* C16: in both observers the k-th reconnect scheduled in a row is given
\* the delay min(1s * 2^(k-1), 30s), and after a board_sync is received
\* the next one is given 1s.
C16_Backoff ==
  /\ [](/\ web.reconnectDelay = ExpectedDelay(web.failures + 1)
        /\ web.failures >= 1 => web.lastDelay = ExpectedDelay(web.failures)
        /\ ext.reconnectDelay = ExpectedDelay(ext.failures + 1)
        /\ ext.failures >= 1 => ext.lastDelay = ExpectedDelay(ext.failures))
  /\ [][/\ GetsBoardSync("web") =>
             web'.reconnectDelay = BASE_RECONNECT_DELAY
        /\ GetsBoardSync("ext") =>
             ext'.reconnectDelay = BASE_RECONNECT_DELAY]_vars

\* the web observer, synchronised once, scheduled its seventh reconnect in
\* a row with a delay of 30s
C16_Witness ==
  /\ web.failures >= 7
  /\ web.reconnectTimer
  /\ web.lastDelay = MAX_RECONNECT_DELAY
  /\ replica["web"].columns # <<>>

\* C17: after an observer is closed it has no pending reconnect timer and
\* no channel, it opens no channel, and its replica is not modified.
C17_ClosedStaysClosed ==
  /\ [](/\ web.attached = "detached" =>
             ~web.reconnectTimer /\ web.eventSource = "null"
        /\ ext.closed =>
             ~ext.reconnectTimer /\ ext.sseRequest = "undefined")
  /\ [][/\ web.attached = "detached" => replica'["web"] = replica["web"]
        /\ ext.closed => replica'["ext"] = replica["ext"]]_vars

\* C35: the replica of an observer holds at most one task per id, however
\* board_sync, the responses of GET /board and task_created events are
\* interleaved.
C35_ReplicaIdsUnique ==
  \A c \in {"web", "ext"} :
    \A i, j \in 1..Len(replica[c].tasks) :
      replica[c].tasks[i].id = replica[c].tasks[j].id => i = j

\* the observer is in use and its channel has failed or was closed
WebDown == web.attached = "attached" /\ web.eventSource = "null"
ExtDown == ext.sseRequest = "failed" /\ ~ext.disposed

\* the observer has a channel
WebUp == web.eventSource \in {"connecting", "open"}
ExtUp == ext.sseRequest \in {"connecting", "open"}

\* the observer has received a board_sync on the channel it has
SyncedOn(c) ==
  \E k \in 1..applied[c] : stream[c][k].type = "board_sync"

\* C34: with timers that fire and messages that are delivered, an observer
\* in use whose channel failed or closed opens a new channel; if from some
\* point on the channel stays up, the observer receives a board_sync, and
\* receiving one makes its replica equal to that snapshot.
C34_Reconnects ==
  /\ WebDown ~> (WebUp \/ web.attached = "detached")
  /\ ExtDown ~> (ExtUp \/ ext.disposed)
  /\ <>[]WebUp => <>[](web.eventSource = "open" /\ SyncedOn("web"))
  /\ <>[]ExtUp => <>[](ext.sseRequest = "open" /\ SyncedOn("ext"))
  /\ [][\A c \in {"web", "ext"} :
         GetsBoardSync(c) => replica'[c] = stream[c][applied'[c]].board]_vars

\* a channel failed, a reconnect was scheduled, and the channel opened by
\* it has delivered its board_sync, taken as the replica
C34_Witness ==
  /\ web.lastDelay > 0
  /\ web.eventSource = "open"
  /\ SyncedOn("web")
  /\ Len(replica["web"].tasks) > 0
  /\ replica["web"] = stream["web"][1].board

\* the reconnect timers of an observer that are pending
PendingTimers(o, stray) == (IF o.reconnectTimer THEN 1 ELSE 0) + stray

\* the channels of an observer that are connecting or open
OpenChannels(state) == IF state \in {"connecting", "open"} THEN 1 ELSE 0

\* C36: each observer has at most one pending reconnect timer and at most
\* one open channel at any time, also when one failure of a channel is
\* reported by more than one callback
C36_OneTimerOneChannel ==
  /\ PendingTimers(web, 0) <= 1
  /\ PendingTimers(ext, ext.strayTimers) <= 1
  /\ OpenChannels(web.eventSource) <= 1
  /\ OpenChannels(ext.sseRequest) <= 1

\* C40: the reconnect delay of an observer returns to its base only when a
\* board_sync is received, and the reconnects scheduled before one is
\* received are given delays that do not decrease
C40_ResetOnlyOnBoardSync ==
  [][/\ (web'.reconnectDelay < web.reconnectDelay) => GetsBoardSync("web")
     /\ (ext'.reconnectDelay < ext.reconnectDelay) => GetsBoardSync("ext")
     /\ (web'.failures = web.failures + 1 /\ web.lastDelay > 0
            /\ ~(\E k \in 1..applied["web"] :
                   stream["web"][k].type = "board_sync"))
          => web'.lastDelay >= web.lastDelay]_vars

\* C26: an updateColumns call that repeats the column list of the call
\* before it succeeds, leaves the column list as the first call left it and
\* changes no task's column.
C26_ColumnsIdempotent ==
  [][(/\ lastCall.op = "updateColumns" /\ lastCall.ok
      /\ lastCall'.op = "updateColumns"
      /\ lastCall'.args = lastCall.args
      /\ (log' # log \/ ~lastCall'.ok)) =>
       /\ lastCall'.ok
       /\ data'.columns = data.columns
       /\ Len(data'.tasks) = Len(data.tasks)
       /\ \A i \in 1..Len(data.tasks) :
            data'.tasks[i].column = data.tasks[i].column]_vars

\* the store emitted the same columns_updated event twice in a row, for a
\* list of two columns with a name to trim, on a board that holds a task
C26_Witness ==
  /\ lastCall.op = "updateColumns" /\ lastCall.ok
  /\ Len(lastCall.args[1]) = 2
  /\ Len(log) >= 2
  /\ log[Len(log)].type = "columns_updated"
  /\ log[Len(log) - 1].type = "columns_updated"
  /\ log[Len(log)].columns = log[Len(log) - 1].columns
  /\ Len(data.tasks) > 0

----------------------------------------------------------------------------
(* Properties of the broadcaster's registry *)

\* the step is a store mutation that passed an event to emit
Emits == Len(log') = Len(log) + 1

\* C12: a sink that has closed is not in the registry; a later broadcast
\* writes nothing to it, every registered sink is written the event, and
\* the mutation that emitted it succeeds (no write raising an error).
C12_ClosedSinkLeavesRegistry ==
  /\ [](\A c \in Clients :
          closedAt[c] >= 0 =>
            c \notin clients /\ ~includes(order, c) /\ stream[c] = <<>>)
  /\ [][(Emits /\ faulty = {}) =>
          /\ lastCall'.ok
          /\ \A c \in Clients :
               stream'[c] = IF c \in clients
                            THEN Append(stream[c], log'[Len(log')])
                            ELSE stream[c]]_vars

\* a sink closed, and the event of a later mutation was written to the
\* other sink only
C12_Witness ==
  \E c, d \in Clients :
    /\ closedAt[c] >= 0 /\ closedAt[c] < Len(log)
    /\ stream[c] = <<>>
    /\ d \in clients /\ joinedAt[d] < closedAt[c]
    /\ faulty = {}
    /\ lastCall.ok /\ lastCall.emitted = <<log[Len(log)]>>
    /\ stream[d][Len(stream[d])] = log[Len(log)]

\* C13: when the write to a sink raises an error during a broadcast, the
\* mutation that emitted the event still returns its result, the other
\* registered sinks are written the event, and the failing sink leaves the
\* registry.
C13_WriteErrorSwallowed ==
  [][(Emits /\ faulty # {}) =>
       /\ lastCall'.ok
       /\ \A c \in clients \ faulty :
            stream'[c] = Append(stream[c], log'[Len(log')])
       /\ clients' \cap faulty = {}]_vars

----------------------------------------------------------------------------
(* Properties of the facades *)

\* C14: for the same create request the REST handler, the create_task tool
\* and the command line agree on success or failure, create a task with the
\* same fields and pass the same event to emit.
C14_FacadesAgree ==
  [][\A req \in CreateRequests :
       (/\ IsCall
        /\ lastCall'.op \in {"POST /tasks", "create_task", "kanbrawl task"}
        /\ lastCall'.args = <<req>>) =>
         LET rest == restPostTasks(World, req, uuidv4(nextId), clock)
             tool == toolCreateTask(World, req, uuidv4(nextId), clock)
             cli == taskAction(World, req.title, cliOptions(req, FALSE),
                               uuidv4(nextId), clock, clock)
         IN /\ rest.ok = tool.ok
            /\ tool.ok = cli.ok
            /\ rest.ok =>
                 /\ rest.result = tool.result
                 /\ tool.result = cli.result
                 /\ rest.emitted = tool.emitted
                 /\ tool.emitted = cli.emitted]_vars

\* the task with this id in the file
Stored(f, id) == f.tasks[findIndex(f.tasks, id)]

\* C15: a request through PATCH /tasks/:id or the command line's --update
\* that changes the column and other fields calls moveTask before
\* updateTask: the events are task_moved then task_updated, and the task
\* keeps the updatedAt that updateTask set.
C15_MoveBeforeUpdate ==
  [][(/\ IsCall
      /\ lastCall'.op \in {"PATCH /tasks/:id", "kanbrawl task --update"}
      /\ lastCall'.ok
      /\ Len(lastCall'.emitted) = 2) =>
       /\ lastCall'.emitted[1].type = "task_moved"
       /\ lastCall'.emitted[2].type = "task_updated"
       /\ Stored(file', lastCall'.emitted[2].task.id).updatedAt =
            lastCall'.emitted[2].task.updatedAt]_vars

\* C20: every task of the store has a non-empty title, whichever facade
\* created or updated it.
C20_TitleNonEmpty ==
  \A i \in 1..Len(data.tasks) : data.tasks[i].title # <<>>

\* the store and the file are as they were, and no event was emitted
NothingApplied ==
  /\ data' = data
  /\ file' = file
  /\ lastCall'.emitted = <<>>

\* the step is a request of this kind
IsRequest(ops) == IsCall /\ lastCall'.op \in ops

\* the status the request of this step was answered with
StatusAnswered ==
  LET op == lastCall'.op
      args == lastCall'.args
  IN CASE op = "POST /tasks" ->
            restPostStatus(restPostTasks(World, args[1], uuidv4(nextId),
                                         clock))
       [] op = "PATCH /tasks/:id" ->
            restPatchStatus(restPatchTask(World, args[1], args[2], clock,
                                          clock'),
                            args[1], args[2])
       [] op = "DELETE /tasks/:id" ->
            restDeleteStatus(restDeleteTask(World, args[1]), args[1])

\* C31: a PATCH or DELETE that names an id the store does not hold is
\* answered 404, and a POST or PATCH that names a column the store does not
\* have is answered 400, whatever the body; in both cases the store and the
\* file are unchanged and no event is emitted.
C31_RestErrors ==
  [][/\ (/\ IsRequest({"PATCH /tasks/:id", "DELETE /tasks/:id"})
          /\ lastCall'.args[1] \notin IdSet(data.tasks)) =>
            (StatusAnswered = 404 /\ NothingApplied)
     /\ (/\ IsRequest({"POST /tasks", "PATCH /tasks/:id"})
          /\ lastCall'.args[Len(lastCall'.args)].column # Undefined
          /\ ~includes(columnNames(data.columns),
                       lastCall'.args[Len(lastCall'.args)].column)) =>
            (StatusAnswered = 400 /\ NothingApplied)]_vars

\* the step is a request, through PATCH or the command line's --update,
\* for a column change together with a field update
IsCombined ==
  /\ IsRequest({"PATCH /tasks/:id", "kanbrawl task --update"})
  /\ ~falsy(lastCall'.args[2].column)
  /\ lastCall'.args[2].description # Undefined

\* C37: a request for both a column change and a field update on one task
\* is applied as a whole by every facade: both the move and the update are
\* applied, or, when the id is unknown or the column does not exist,
\* neither is and no event is emitted.
C37_CombinedAtomic ==
  [][IsCombined =>
       IF lastCall'.ok
       THEN LET task == Stored(file', lastCall'.result.id)
            IN /\ task.column = lastCall'.args[2].column
               /\ task.description = lastCall'.args[2].description
       ELSE NothingApplied]_vars

\* C38: a run of the command line with --update that names no priority
\* leaves the priority of the task it matched as it was, and changes only
\* the fields it names.
C38_CliUpdateKeepsPriority ==
  [][(/\ IsRequest({"kanbrawl task --update"})
      /\ lastCall'.ok) =>
       LET req == lastCall'.args[2]
           old == Stored(file, lastCall'.result.id)
           new == Stored(file', lastCall'.result.id)
       IN /\ req.priority = UndefinedEnum => new.priority = old.priority
          /\ req.description = Undefined =>
               new.description = old.description
          /\ req.assignee = Undefined => new.assignee = old.assignee
          /\ new.title = old.title]_vars

\* the positions of the tasks of the file whose title is this one, the
\* case of the letters left aside
TitleMatches(f, title) ==
  {i \in 1..Len(f.tasks) : toLowerCase(f.tasks[i].title) = toLowerCase(title)}

\* the first of them
FirstMatch(f, title) ==
  CHOOSE i \in TitleMatches(f, title) :
    \A j \in TitleMatches(f, title) : i <= j

\* C32: with --update the command line modifies the first task whose title
\* is the given one, the case of the letters left aside, and creates none;
\* when no task matches it ends with a non-zero exit code and the board as
\* it was; without --update it creates a new task, also when a task with
\* that title exists (the column, when one is named, being one of the
\* board's).
C32_CliCreateOrUpdate ==
  [][/\ IsRequest({"kanbrawl task --update"}) =>
          LET title == lastCall'.args[1]
              old == load(file)
          IN IF TitleMatches(old, title) = {}
             THEN /\ ~lastCall'.ok
                  /\ lastCall'.error = "notitle"
                  /\ file' = file
             ELSE /\ Len(file'.tasks) = Len(old.tasks)
                  /\ \A i \in 1..Len(old.tasks) :
                       i # FirstMatch(old, title) =>
                         file'.tasks[i] = old.tasks[i]
                  /\ LET req == lastCall'.args[2]
                         task == file'.tasks[FirstMatch(old, title)]
                     IN /\ task.id = old.tasks[FirstMatch(old, title)].id
                        /\ req.description # Undefined =>
                             task.description = req.description
                        /\ req.priority # UndefinedEnum =>
                             task.priority = req.priority
                        /\ (lastCall'.ok /\ req.column # Undefined) =>
                             task.column = req.column
     /\ (/\ IsRequest({"kanbrawl task"})
          /\ lastCall'.args[2].column \in
               {Undefined} \cup NameSet(load(file).columns)) =>
          /\ lastCall'.ok
          /\ Len(file'.tasks) = Len(file.tasks) + 1
          /\ SubSeq(file'.tasks, 1, Len(file.tasks)) = file.tasks
          /\ file'.tasks[Len(file'.tasks)].title = lastCall'.args[1]
          /\ file'.tasks[Len(file'.tasks)].id \notin IdSet(file.tasks)]_vars

\* of two tasks whose titles differ by the case of a letter, a run with
\* --update and the title of the second has modified the first; and a run
\* without --update has created the second
C32_Witness ==
  /\ lastCall.op = "kanbrawl task --update"
  /\ lastCall.ok
  /\ Len(file.tasks) = 2
  /\ TitleMatches(file, lastCall.args[1]) = {1, 2}
  /\ file.tasks[1].title # lastCall.args[1]
  /\ file.tasks[2].title = lastCall.args[1]
  /\ lastCall.changed = {file.tasks[1].id}
  /\ lastCall.args[2].description = file.tasks[1].description
  /\ lastCall.args[2].description # file.tasks[2].description

\* the requests the server changes the board for
RestOps == {"POST /tasks", "PATCH /tasks/:id", "DELETE /tasks/:id"}

\* C39: what the command line wrote while the server runs is not lost: a
\* task of the file that a later request to the server does not name is,
\* after the request, in the file and in the board the server holds, as the
\* command line left it.
C39_CliChangeKept ==
  [][(IsRequest(RestOps) /\ lastCall'.ok) =>
       \A i \in 1..Len(file.tasks) :
         (lastCall'.op = "POST /tasks" \/ file.tasks[i].id # lastCall'.args[1])
           => /\ file.tasks[i] \in Range(file'.tasks)
              /\ file.tasks[i] \in Range(data'.tasks)]_vars

----------------------------------------------------------------------------
(* Properties of the list_tasks tool *)

\* the priorities, the most urgent first
PriorityOrder == <<"P0", "P1", "P2">>

PriorityRank(p) == CHOOSE k \in 1..Len(PriorityOrder) : PriorityOrder[k] = p

\* the positions, in the store's task list, of the tasks of the column that
\* match the priority when one is asked for and, when byAssignee, the
\* assignee whatever the case of its letters
Selected(tasks, column, priority, assignee, byAssignee) ==
  {i \in 1..Len(tasks) :
     /\ tasks[i].column = column
     /\ priority # UndefinedEnum => tasks[i].priority = priority
     /\ byAssignee => toLowerCase(tasks[i].assignee) = toLowerCase(assignee)}

\* task j is listed before task i: more urgent, or as urgent and created
\* earlier, or equal on both and inserted earlier
ListedBefore(tasks, j, i) ==
  LET pj == PriorityRank(tasks[j].priority)
      pi == PriorityRank(tasks[i].priority)
  IN \/ pj < pi
     \/ pj = pi /\ tasks[j].createdAt < tasks[i].createdAt
     \/ pj = pi /\ tasks[j].createdAt = tasks[i].createdAt /\ j < i

\* the selected tasks in listing order, cut after the first limit of them
Listing(tasks, selected, limit) ==
  LET place(i) == 1 + Cardinality({j \in selected : ListedBefore(tasks, j, i)})
      count == IF Cardinality(selected) < limit THEN Cardinality(selected)
               ELSE limit
  IN [k \in 1..count |-> tasks[CHOOSE i \in selected : place(i) = k]]

\* the listing a call with these arguments is to return for a column
ListingOf(column, args, byAssignee) ==
  Listing(data.tasks,
          Selected(data.tasks, column, args.priority, args.assignee,
                   byAssignee),
          IF args.max = UndefinedNumber THEN DefaultMax ELSE args.max)

\* the last call was list_tasks, and it named a column the store has
ListedNamedColumn ==
  /\ lastCall.op = "list_tasks"
  /\ lastCall.args[1].column # Undefined
  /\ includes(columnNames(data.columns), lastCall.args[1].column)

C29_DefaultIsCurrentFirstColumn ==
  (lastCall.op = "list_tasks" /\ lastCall.args[1].column = Undefined) =>
    LET args == lastCall.args[1]
    IN /\ lastCall.ok
       /\ lastCall.result =
            ListingOf(data.columns[1].name, args, ~falsy(args.assignee))

----------------------------------------------------------------------------
(* Properties of identifiers and timestamps *)

\* the identifiers the earlier createTask calls were given
Issued == {uuidv4(n) : n \in 1..(nextId - 1)}

\* C18: a created task gets an identifier no earlier task was given, even
\* one deleted since, with updatedAt equal to createdAt; no operation
\* changes the identifier of a task.
C18_IdsUnique ==
  /\ [](\A i, j \in 1..Len(data.tasks) :
          i # j => data.tasks[i].id # data.tasks[j].id)
  /\ [][(IsCall /\ lastCall'.op = "createTask" /\ lastCall'.ok) =>
          LET task == lastCall'.result
          IN /\ task.id \notin Issued
             /\ task.updatedAt = task.createdAt
             /\ data'.tasks = Append(data.tasks, task)]_vars
  /\ [][/\ IdSet(data'.tasks) \subseteq
             IdSet(data.tasks) \cup
               (IF lastCall'.op = "createTask" /\ lastCall'.ok
                THEN {lastCall'.result.id} ELSE {})
        /\ Len(data'.tasks) = Len(data.tasks) =>
             \A i \in 1..Len(data.tasks) :
               data'.tasks[i].id = data.tasks[i].id]_vars

\* the second task was created after the first was deleted, at a later time
C18_Witness ==
  /\ lastCall.op = "createTask" /\ lastCall.ok
  /\ lastCall.result.id = 2
  /\ IdSet(data.tasks) = {2}
  /\ lastCall.result.createdAt > 0

\* C19: updatedAt is never before createdAt, createdAt never changes, and
\* a successful moveTask, updateTask or reassignment from a removed column
\* sets the task's updatedAt to the time of the call.
C19_Timestamps ==
  /\ [](\A i \in 1..Len(data.tasks) :
          data.tasks[i].updatedAt >= data.tasks[i].createdAt)
  /\ [][\A i \in 1..Len(data.tasks), j \in 1..Len(data'.tasks) :
          data'.tasks[j].id = data.tasks[i].id =>
            data'.tasks[j].createdAt = data.tasks[i].createdAt]_vars
  /\ [][(/\ IsCall
         /\ lastCall'.op \in {"moveTask", "updateTask"}
         /\ lastCall'.ok) =>
          data'.tasks[findIndex(data'.tasks, lastCall'.args[1])].updatedAt
            = clock]_vars
  /\ [][(IsCall /\ lastCall'.op = "updateColumns" /\ lastCall'.ok) =>
          \A i \in 1..Len(data.tasks) :
            data.tasks[i].column \in Removed =>
              data'.tasks[i].updatedAt = clock]_vars

\* a task was moved at a time later than its creation
C19_Witness ==
  /\ lastCall.op = "moveTask" /\ lastCall.ok
  /\ lastCall.result.updatedAt = clock
  /\ lastCall.result.createdAt < clock
  /\ data.tasks[findIndex(data.tasks, lastCall.args[1])].updatedAt = clock

====
